---- MODULE Spec2Model ----
(***************************************************************************)
(* Movie Explorer front end (src/main.js): the request / cache /           *)
(* cancellation coordination layer and the profile store.                  *)
(*                                                                         *)
(* Text is a sequence of one-character strings, so that length, trim,      *)
(* lower-casing, substring search and key composition are computed.        *)
(* A movie summary is its id; title, adult flag and poster fields are      *)
(* looked up in a small catalogue.  Time is in milliseconds.               *)
(***************************************************************************)
EXTENDS Integers, Sequences, FiniteSets, TLC

(***************************************************************************)
(* Program constants                                                       *)
(***************************************************************************)
CACHE_TTL_MS == 30000
SUGGEST_DEBOUNCE_MS == 150
RECS_DEBOUNCE_MS == 400
HISTORY_CAP == 100
IMMEDIATE_LIMIT == 4
MIN_SUGGEST_LEN == 2
SHORT_QUERY_LEN == 3
VISIBLE_MOVIES == 10
ENRICH_LIMIT == 6

(***************************************************************************)
(* Bounds of the model                                                     *)
(***************************************************************************)
MaxSearches == 2      \* searchMovies calls that reach the try block
MaxLookups == 4       \* user events while the caches age
MaxEvents == 3        \* user events when the three channels run together
MaxWatchlist == 3     \* length of the watchlist found in localStorage
MaxInputs == 3        \* input / focus events on the search box
MaxMutations == 3     \* profile mutations that schedule a refresh
MaxMovieId == 102     \* distinct movie ids opened in the detail modal
RevisitIds == 2       \* ids of the detail modal that may be opened again
MaxTime == 30400      \* the clock stops here
FineWindow == 300     \* the clock is observed this long after each TTL period starts

(***************************************************************************)
(* Text                                                                    *)
(***************************************************************************)
Min(a, b) == IF a < b THEN a ELSE b
Max(a, b) == IF a > b THEN a ELSE b

LowerOf ==
    [c \in {"A","D","F","G","I","K","M","P","S","T","W"} |->
        CASE c = "A" -> "a" [] c = "D" -> "d" [] c = "F" -> "f"
          [] c = "G" -> "g" [] c = "I" -> "i" [] c = "K" -> "k"
          [] c = "M" -> "m" [] c = "P" -> "p" [] c = "S" -> "s"
          [] c = "T" -> "t" [] c = "W" -> "w"]

\* String.prototype.toLowerCase
toLowerCase(s) ==
    [i \in 1..Len(s) |-> IF s[i] \in DOMAIN LowerOf THEN LowerOf[s[i]] ELSE s[i]]

\* String.prototype.includes
includes(hay, needle) ==
    \E i \in 0..(Len(hay) - Len(needle)) :
        SubSeq(hay, i + 1, i + Len(needle)) = needle

RECURSIVE trimStart(_)
trimStart(s) ==
    IF s # <<>> /\ Head(s) = " " THEN trimStart(Tail(s)) ELSE s

RECURSIVE trimEnd(_)
trimEnd(s) ==
    IF s # <<>> /\ s[Len(s)] = " " THEN trimEnd(SubSeq(s, 1, Len(s) - 1)) ELSE s

\* no trimming
trimNone(s) == s

\* String.prototype.trim
trim(s) == trimEnd(trimStart(s))

RECURSIVE join(_, _)
\* Array.prototype.join
join(parts, sep) ==
    IF parts = <<>> THEN <<>>
    ELSE IF Len(parts) = 1 THEN parts[1]
    ELSE parts[1] \o sep \o join(Tail(parts), sep)

\* Array.prototype.includes
Contains(seq, x) == \E i \in DOMAIN seq : seq[i] = x

\* Array.prototype.filter(e => e !== x)
Without(seq, x) == SelectSeq(seq, LAMBDA e : e # x)

\* Array.prototype.slice(0, n)
slice(seq, n) == SubSeq(seq, 1, Min(n, Len(seq)))

Range(seq) == {seq[i] : i \in DOMAIN seq}

(***************************************************************************)
(* State                                                                   *)
(***************************************************************************)
VARIABLES
    userProfile,            \* the in-memory profile
    watchlist,              \* the module-level watchlist
    storedProfile,          \* localStorage['movieExplorerProfile']
    now,                    \* Date.now()
    timers,                 \* pending setTimeout callbacks
    searchTimeout,          \* handle of the suggestion debounce timer
    recsDebounceTimeout,    \* handle of the refresh debounce timer
    controllers,            \* every AbortController created so far
    suggestionsController,  \* index into controllers, 0 for null
    searchController,
    recsController,
    searchResultCache,
    suggestionCache,
    tmdbPosterCache,
    searches,               \* searchMovies calls
    refreshes,              \* refresh timer callbacks
    suggests,               \* getSearchSuggestions calls that fetch
    frames,                 \* pending requestAnimationFrame callbacks
    view,                   \* container id -> what it shows
    hidden,                 \* element id -> has class 'hidden'
    inputValue,             \* value of #search-input
    currentSuggestions,
    selectedSuggestionIndex,
    suggestionsContent,     \* what #suggestions-content shows
    eventLog,               \* input and focus events seen
    callLog,                \* getSearchSuggestions calls made
    netLog,                 \* network requests issued
    mutations,              \* profile mutations performed
    mutationLog,            \* when each of them was performed
    idsSeen,                \* distinct ids opened in the detail modal
    lastCall                \* the last handler run for a user action

profileVars == <<userProfile, watchlist, storedProfile>>
timerVars == <<timers, searchTimeout, recsDebounceTimeout>>
channelVars == <<controllers, suggestionsController, searchController, recsController>>
cacheVars == <<searchResultCache, suggestionCache, tmdbPosterCache>>
callVars == <<searches, refreshes, suggests, frames>>
pageVars == <<view, hidden>>
suggestVars == <<inputValue, currentSuggestions, selectedSuggestionIndex, suggestionsContent>>
logVars == <<eventLog, callLog, netLog, mutations, mutationLog, idsSeen, lastCall>>

vars == <<profileVars, now, timerVars, channelVars, cacheVars, callVars,
          pageVars, suggestVars, logVars>>

(***************************************************************************)
(* Timers: a handle is the pending callback itself                         *)
(***************************************************************************)
NoTimer == [kind |-> "none", due |-> 0, query |-> <<>>]

\* setTimeout(callback, delay)
setTimeout(kind, delay, query) == [kind |-> kind, due |-> now + delay, query |-> query]

\* clearTimeout(handle)
clearTimeout(pending, handle) == pending \ {handle}

(***************************************************************************)
(* Profile store                                                           *)
(***************************************************************************)
DefaultProfile ==
    [ age |-> 25, safe_mode |-> TRUE, language |-> << <<"e","n">> >>,
      mood |-> "happy", watchlist |-> <<>>, history |-> <<>>,
      liked_movies |-> <<>>, disliked_movies |-> <<>> ]

\* the profile as the handler found it is written to storage
saveUserProfileStale == storedProfile' = userProfile

\* saveUserProfile: the profile as the handler leaves it is written to storage
saveUserProfile == storedProfile' = userProfile'

\* loadPersonalizedRecommendations up to the return of its promise:
\* the pending refresh timer is cleared and a new one is set
loadPersonalizedRecommendationsKeepTimer ==
    LET t == setTimeout("recs", RECS_DEBOUNCE_MS, <<>>) IN
    /\ timers' = timers \cup {t}
    /\ recsDebounceTimeout' = t
    /\ UNCHANGED searchTimeout

loadPersonalizedRecommendations ==
    LET t == setTimeout("recs", RECS_DEBOUNCE_MS, <<>>) IN
    /\ timers' = clearTimeout(timers, recsDebounceTimeout) \cup {t}
    /\ recsDebounceTimeout' = t
    /\ UNCHANGED searchTimeout

\* rateMovie: the two rating lists after the call
rateMovieListsKeepOther(p, movieId, liked) ==
    IF liked
    THEN [p EXCEPT !.liked_movies =
                       IF Contains(@, movieId) THEN @ ELSE Append(@, movieId)]
    ELSE [p EXCEPT !.disliked_movies =
                       IF Contains(@, movieId) THEN @ ELSE Append(@, movieId)]

rateMovieLists(p, movieId, liked) ==
    IF liked
    THEN [p EXCEPT !.liked_movies =
                       IF Contains(@, movieId) THEN @ ELSE Append(@, movieId),
                   !.disliked_movies = Without(@, movieId)]
    ELSE [p EXCEPT !.disliked_movies =
                       IF Contains(@, movieId) THEN @ ELSE Append(@, movieId),
                   !.liked_movies = Without(@, movieId)]

rateMovie(movieId, liked) ==
    /\ mutations < MaxMutations
    /\ lastCall' = [op |-> "rateMovie", movieId |-> movieId, liked |-> liked]
    /\ mutations' = mutations + 1
    /\ mutationLog' = Append(mutationLog, [op |-> lastCall'.op, at |-> now])
    /\ userProfile' = rateMovieLists(userProfile, movieId, liked)
    /\ saveUserProfile
    /\ loadPersonalizedRecommendations
    /\ UNCHANGED <<watchlist, now, channelVars, cacheVars, callVars, pageVars,
                   suggestVars, eventLog, callLog, netLog, idsSeen>>

\* addToHistory: the history list after the call
addToHistoryNoCap(history, movieId) ==
    IF ~Contains(history, movieId) THEN <<movieId>> \o history ELSE history

addToHistoryList(history, movieId) ==
    IF ~Contains(history, movieId)
    THEN LET h == <<movieId>> \o history IN
         IF Len(h) > HISTORY_CAP THEN slice(h, HISTORY_CAP) ELSE h
    ELSE history

\* addToHistory: the profile is saved only when the id was new
addToHistory(movieId) ==
    /\ userProfile' = [userProfile EXCEPT !.history = addToHistoryList(@, movieId)]
    /\ IF ~Contains(userProfile.history, movieId)
       THEN saveUserProfile
       ELSE UNCHANGED storedProfile

\* showMovieDetail: the part that changes the profile (the modal is not modelled).
\* Ids are opaque to addToHistory: the k-th distinct id opened is called k.
showMovieDetail(movieId) ==
    /\ movieId <= MaxMovieId
    /\ lastCall' = [op |-> "showMovieDetail", movieId |-> movieId]
    /\ idsSeen' = Max(idsSeen, movieId)
    /\ addToHistory(movieId)
    /\ UNCHANGED <<watchlist, now, timerVars, channelVars, cacheVars, callVars,
                   pageVars, suggestVars, eventLog, callLog, netLog, mutations, mutationLog>>

\* showToast: a .toast element is put into the document; "toast" is hidden
\* while the document holds none (its removal 3.3 s later is left out)
showToast(h) == [h EXCEPT !["toast"] = FALSE]

\* toggleWatchlist: the module-level watchlist after the call (a movie is its id)
\* Array.prototype.findIndex, 0 when nothing matches
findIndex(list, movie) ==
    IF Contains(list, movie)
    THEN CHOOSE i \in DOMAIN list :
            list[i] = movie /\ \A j \in 1..(i - 1) : list[j] # movie
    ELSE 0

\* Array.prototype.splice(index, 1)
splice(list, index) ==
    [i \in 1..(Len(list) - 1) |-> IF i < index THEN list[i] ELSE list[i + 1]]

\* toggleWatchlist: the local watchlist after the call
toggleWatchlistListPush(list, movie) == Append(list, movie)

toggleWatchlistList(list, movie) ==
    IF findIndex(list, movie) = 0
    THEN Append(list, movie)
    ELSE splice(list, findIndex(list, movie))

toggleWatchlist(movie) ==
    /\ mutations < MaxMutations
    /\ lastCall' = [op |-> "toggleWatchlist", movie |-> movie, before |-> watchlist]
    /\ mutations' = mutations + 1
    /\ mutationLog' = Append(mutationLog, [op |-> lastCall'.op, at |-> now])
    /\ watchlist' = toggleWatchlistList(watchlist, movie)
    /\ userProfile' = [userProfile EXCEPT !.watchlist = watchlist']
    /\ saveUserProfile
    /\ hidden' = showToast(hidden)
    /\ loadPersonalizedRecommendations
    /\ UNCHANGED <<now, channelVars, cacheVars, callVars, view,
                   suggestVars, eventLog, callLog, netLog, idsSeen>>

\* click on a .mood-btn
moodButtonClick(mood) ==
    /\ mutations < MaxMutations
    /\ lastCall' = [op |-> "moodButtonClick", mood |-> mood]
    /\ mutations' = mutations + 1
    /\ mutationLog' = Append(mutationLog, [op |-> lastCall'.op, at |-> now])
    /\ userProfile' = [userProfile EXCEPT !.mood = mood]
    /\ saveUserProfile
    /\ loadPersonalizedRecommendations
    /\ UNCHANGED <<watchlist, now, channelVars, cacheVars, callVars, pageVars,
                   suggestVars, eventLog, callLog, netLog, idsSeen>>

\* click on a .mood-popup-btn (last_mood_update is no field of this model)
moodPopupPick(mood) ==
    /\ mutations < MaxMutations
    /\ lastCall' = [op |-> "moodPopupPick", mood |-> mood]
    /\ mutations' = mutations + 1
    /\ mutationLog' = Append(mutationLog, [op |-> lastCall'.op, at |-> now])
    /\ userProfile' = [userProfile EXCEPT !.mood = mood]
    /\ saveUserProfile
    /\ loadPersonalizedRecommendations
    /\ UNCHANGED <<watchlist, now, channelVars, cacheVars, callVars, pageVars,
                   suggestVars, eventLog, callLog, netLog, idsSeen>>

\* the codes of LANGUAGE_MAP a language option can carry, in document order
LanguageOptions == << <<"e","n">>, <<"h","i">>, <<"e","s">> >>

RECURSIVE SubLists(_)
\* the lists langSelect.selectedOptions can give: the selected options in
\* document order
SubLists(options) ==
    IF options = <<>> THEN {<<>>}
    ELSE LET rest == SubLists(Tail(options)) IN
         rest \cup {<<Head(options)>> \o r : r \in rest}

\* click on a .language-option; selected is the selection of
\* #profile-languages-input after the option was toggled
languageOptionClick(selected) ==
    /\ mutations < MaxMutations
    /\ lastCall' = [op |-> "languageOptionClick", selected |-> selected]
    /\ mutations' = mutations + 1
    /\ mutationLog' = Append(mutationLog, [op |-> lastCall'.op, at |-> now])
    /\ userProfile' = [userProfile EXCEPT !.language = selected]
    /\ saveUserProfile
    /\ loadPersonalizedRecommendations
    /\ UNCHANGED <<watchlist, now, channelVars, cacheVars, callVars, pageVars,
                   suggestVars, eventLog, callLog, netLog, idsSeen>>

\* no validation
rejectedNever(age, safeMode) == FALSE

\* the two validations of saveProfile; age 0 stands for a missing or
\* non-numeric age field
rejected(age, safeMode) ==
    \/ age = 0 \/ age < 13 \/ age > 100
    \/ age < 18 /\ ~safeMode

\* saveProfile with the values of the form: age is parseInt of the age field
\* (0 stands for NaN as well), safeMode the checkbox, languages the selection
saveProfile(age, safeMode, languages) ==
    /\ mutations < MaxMutations
    /\ lastCall' = [op |-> "saveProfile", age |-> age, safeMode |-> safeMode,
                                          languages |-> languages]
    /\ IF rejected(age, safeMode)
       THEN UNCHANGED <<userProfile, storedProfile, timerVars, mutations, mutationLog>>
       ELSE /\ mutations' = mutations + 1
            /\ mutationLog' = Append(mutationLog, [op |-> lastCall'.op, at |-> now])
            /\ userProfile' =
                  [userProfile EXCEPT
                      !.age = age,
                      !.safe_mode = safeMode,
                      !.language = IF Len(languages) > 0 THEN languages
                                   ELSE << <<"e","n">> >>]
            /\ saveUserProfile
            /\ loadPersonalizedRecommendations
    /\ hidden' = showToast(hidden)
    /\ UNCHANGED <<watchlist, now, channelVars, cacheVars, callVars, view,
                   suggestVars, eventLog, callLog, netLog, idsSeen>>

(***************************************************************************)
(* Search suggestions                                                      *)
(***************************************************************************)
\* the fixed list of getImmediateSuggestions
commonMovies ==
    << [title |-> <<"T","h","e"," ","D","a","r","k"," ","K","n","i","g","h","t">>,
        id |-> 155],
       [title |-> <<"I","n","c","e","p","t","i","o","n">>,
        id |-> 27205],
       [title |-> <<"I","n","t","e","r","s","t","e","l","l","a","r">>,
        id |-> 157336],
       [title |-> <<"T","h","e"," ","M","a","t","r","i","x">>,
        id |-> 603],
       [title |-> <<"P","u","l","p"," ","F","i","c","t","i","o","n">>,
        id |-> 680],
       [title |-> <<"T","h","e"," ","G","o","d","f","a","t","h","e","r">>,
        id |-> 238],
       [title |-> <<"A","v","a","t","a","r">>,
        id |-> 19995],
       [title |-> <<"T","i","t","a","n","i","c">>,
        id |-> 597],
       [title |-> <<"S","t","a","r"," ","W","a","r","s">>,
        id |-> 11],
       [title |-> <<"T","h","e"," ","A","v","e","n","g","e","r","s">>,
        id |-> 24428] >>

\* Array.prototype.filter
RECURSIVE filterTitles(_, _)
filterTitles(list, queryLower) ==
    IF list = <<>> THEN <<>>
    ELSE IF includes(toLowerCase(Head(list).title), queryLower)
         THEN <<Head(list)>> \o filterTitles(Tail(list), queryLower)
         ELSE filterTitles(Tail(list), queryLower)

\* no local list
getImmediateSuggestionsNone(query) == <<>>

getImmediateSuggestionsAll(query) ==
    LET matches == filterTitles(commonMovies, toLowerCase(query)) IN
    [i \in 1..Len(matches) |-> matches[i].id]

\* getImmediateSuggestions: the ids of the first matches, in list order
getImmediateSuggestions(query) ==
    LET matches == slice(filterTitles(commonMovies, toLowerCase(query)), IMMEDIATE_LIMIT) IN
    [i \in 1..Len(matches) |-> matches[i].id]

\* the query is long enough for getSearchSuggestions to go on
longEnoughAny(query) == trim(query) # <<>>

longEnough(query) == ~(trim(query) = <<>> \/ Len(query) < MIN_SUGGEST_LEN)

\* cacheKey of getSearchSuggestions
suggestionCacheKey(query) ==
    query \o <<"|">> \o join(userProfile.language, <<",">>) \o <<"|">>
          \o (IF userProfile.safe_mode THEN <<"1">> ELSE <<"0">>)

\* cached && (Date.now() - cached.time) < CACHE_TTL_MS
isFreshForever(cache, key) == key \in DOMAIN cache

isFresh(cache, key) ==
    key \in DOMAIN cache /\ (now - cache[key].time) < CACHE_TTL_MS

\* Map.prototype.set
cacheSet(cache, key, results) ==
    (key :> [results |-> results, time |-> now]) @@ cache

Show(h, element) == [h EXCEPT ![element] = FALSE]
Hide(h, element) == [h EXCEPT ![element] = TRUE]

\* new AbortController() registered on a channel
newController(channel) == [channel |-> channel, aborted |-> FALSE]

\* controller.abort() when the channel variable is not null
abort(ctls, c) == IF c = 0 THEN ctls ELSE [ctls EXCEPT ![c].aborted = TRUE]

\* beginning a request on a channel: abort the previous controller, create one
beginNoAbort(ctls, c, channel) == Append(ctls, newController(channel))

begin(ctls, c, channel) == Append(abort(ctls, c), newController(channel))

hideSuggestions ==
    /\ hidden' = Hide(hidden, "search-suggestions")
    /\ selectedSuggestionIndex' = -1

displaySuggestions(suggestions) ==
    /\ suggestionsContent' =
           IF suggestions = <<>> THEN [kind |-> "none", items |-> <<>>]
           ELSE [kind |-> "items", items |-> suggestions]
    /\ hidden' = Show(hidden, "search-suggestions")
    /\ selectedSuggestionIndex' =
           IF suggestions = <<>> THEN selectedSuggestionIndex ELSE -1

\* getSearchSuggestions(query) up to its return or its fetch
getSearchSuggestions(query, cause) ==
    LET immediateSuggestions == getImmediateSuggestions(query)
        cacheKey == suggestionCacheKey(query)
        call == [query |-> query, at |-> now, cause |-> cause, cacheKey |-> cacheKey,
                 language |-> userProfile.language,
                 safe_mode |-> userProfile.safe_mode]
    IN
    IF ~longEnough(query)
    THEN /\ hideSuggestions
         /\ callLog' = Append(callLog, call @@ [path |-> "short", entryAt |-> -1])
         /\ UNCHANGED <<currentSuggestions, suggestionsContent, channelVars,
                        suggests, netLog>>
    ELSE IF Len(query) <= SHORT_QUERY_LEN /\ immediateSuggestions # <<>>
    THEN /\ currentSuggestions' = immediateSuggestions
         /\ displaySuggestions(immediateSuggestions)
         /\ callLog' = Append(callLog, call @@ [path |-> "local", entryAt |-> -1])
         /\ UNCHANGED <<channelVars, suggests, netLog>>
    ELSE IF isFresh(suggestionCache, cacheKey)
    THEN /\ currentSuggestions' = suggestionCache[cacheKey].results
         /\ displaySuggestions(suggestionCache[cacheKey].results)
         /\ callLog' = Append(callLog, call @@
                [path |-> "hit", entryAt |-> suggestionCache[cacheKey].time])
         /\ UNCHANGED <<channelVars, suggests, netLog>>
    ELSE /\ controllers' = begin(controllers, suggestionsController, "suggestions")
         /\ suggestionsController' = Len(controllers')
         /\ suggests' = Append(suggests,
                [query |-> query, cacheKey |-> cacheKey,
                 signal |-> Len(controllers'), pc |-> "fetch"])
         /\ netLog' = Append(netLog,
                [endpoint |-> "/search", from |-> "suggestions",
                 query |-> query, at |-> now])
         /\ callLog' = Append(callLog, call @@
                [path |-> "fetch",
                 entryAt |-> IF cacheKey \in DOMAIN suggestionCache
                             THEN suggestionCache[cacheKey].time ELSE -1])
         /\ UNCHANGED <<currentSuggestions, suggestionsContent, hidden,
                        selectedSuggestionIndex, searchController, recsController>>

\* 'input' listener of #search-input: the timers after clearing the pending one
inputClearKeep(pending, handle) == pending

inputClear(pending, handle) == clearTimeout(pending, handle)

inputEvent(text) ==
    LET query == trim(text)
        t == setTimeout("suggest", SUGGEST_DEBOUNCE_MS, query)
    IN
    /\ Len(eventLog) < MaxInputs
    /\ eventLog' = Append(eventLog, [kind |-> "input", text |-> text, at |-> now])
    /\ inputValue' = text
    /\ IF query = <<>>
       THEN /\ timers' = inputClear(timers, searchTimeout)
            /\ hideSuggestions
            /\ UNCHANGED searchTimeout
       ELSE /\ timers' = inputClear(timers, searchTimeout) \cup {t}
            /\ searchTimeout' = t
            /\ UNCHANGED <<hidden, selectedSuggestionIndex>>
    /\ UNCHANGED <<profileVars, now, recsDebounceTimeout, channelVars, cacheVars,
                   callVars, view, currentSuggestions, suggestionsContent,
                   callLog, netLog, mutations, mutationLog, idsSeen, lastCall>>

\* the debounce timer of the 'input' listener fires
suggestTimerFires(t) ==
    /\ t \in timers
    /\ t.kind = "suggest"
    /\ t.due <= now
    /\ timers' = timers \ {t}
    /\ getSearchSuggestions(t.query, "timer")
    /\ UNCHANGED <<profileVars, now, searchTimeout, recsDebounceTimeout, cacheVars,
                   searches, refreshes, frames, view, inputValue,
                   eventLog, mutations, mutationLog, idsSeen, lastCall>>

\* 'focus' listener of #search-input
focusEvent ==
    LET query == trim(inputValue)
        immediateSuggestions == getImmediateSuggestions(query)
    IN
    /\ Len(eventLog) < MaxInputs
    /\ eventLog' = Append(eventLog, [kind |-> "focus", text |-> inputValue, at |-> now])
    /\ IF Len(query) >= MIN_SUGGEST_LEN
       THEN IF Len(query) <= SHORT_QUERY_LEN /\ immediateSuggestions # <<>>
            THEN /\ currentSuggestions' = immediateSuggestions
                 /\ displaySuggestions(immediateSuggestions)
                 /\ UNCHANGED <<channelVars, suggests, netLog, callLog>>
            ELSE getSearchSuggestions(query, "focus")
       ELSE UNCHANGED <<currentSuggestions, suggestionsContent, hidden,
                        selectedSuggestionIndex, channelVars, suggests, netLog, callLog>>
    /\ UNCHANGED <<profileVars, now, timerVars, cacheVars,
                   searches, refreshes, frames, view, inputValue,
                   mutations, mutationLog, idsSeen, lastCall>>

\* the .search-suggestion-item elements of #suggestions-content
suggestionItems ==
    IF suggestionsContent.kind = "items" THEN Len(suggestionsContent.items) ELSE 0

\* handleSuggestionNavigation(direction): 'keydown' with ArrowDown or ArrowUp
handleSuggestionNavigation(direction) ==
    /\ lastCall' = [op |-> "handleSuggestionNavigation", direction |-> direction,
                    before |-> selectedSuggestionIndex]
    /\ IF Len(currentSuggestions) = 0 \/ suggestionItems = 0
       THEN UNCHANGED selectedSuggestionIndex
       ELSE selectedSuggestionIndex' =
                IF direction = "down"
                THEN Min(selectedSuggestionIndex + 1, Len(currentSuggestions) - 1)
                ELSE Max(selectedSuggestionIndex - 1, -1)
    /\ UNCHANGED <<profileVars, now, timerVars, channelVars, cacheVars, callVars,
                   pageVars, inputValue, currentSuggestions, suggestionsContent,
                   eventLog, callLog, netLog, mutations, mutationLog, idsSeen>>

\* 'keydown' with Escape: hideSuggestions and blur
escapeKey ==
    /\ lastCall' = [op |-> "escapeKey"]
    /\ hideSuggestions
    /\ UNCHANGED <<profileVars, now, timerVars, channelVars, cacheVars, callVars,
                   view, inputValue, currentSuggestions, suggestionsContent,
                   eventLog, callLog, netLog, mutations, mutationLog, idsSeen>>

\* the /search fetch of getSearchSuggestions rejects: its signal was aborted
suggestAborted(i) ==
    /\ i \in DOMAIN suggests
    /\ suggests[i].pc = "fetch"
    /\ controllers[suggests[i].signal].aborted
    /\ suggests' = [suggests EXCEPT ![i].pc = "aborted"]
    /\ currentSuggestions' = <<>>
    /\ displaySuggestions(<<>>)
    /\ UNCHANGED <<profileVars, now, timerVars, channelVars, cacheVars,
                   searches, refreshes, frames, view, inputValue, logVars>>

\* the /search fetch of getSearchSuggestions settles: a JSON list, a JSON body
\* that is no list, or a transport error
suggestSettles(i, response) ==
    /\ i \in DOMAIN suggests
    /\ suggests[i].pc = "fetch"
    /\ ~controllers[suggests[i].signal].aborted
    /\ suggests' = [suggests EXCEPT ![i].pc = response.kind]
    /\ IF response.kind = "list"
       THEN /\ currentSuggestions' = response.movies
            /\ displaySuggestions(response.movies)
            /\ suggestionCache' = cacheSet(suggestionCache, suggests[i].cacheKey,
                                           response.movies)
       ELSE /\ currentSuggestions' = <<>>
            /\ displaySuggestions(<<>>)
            /\ UNCHANGED suggestionCache
    /\ UNCHANGED <<profileVars, now, timerVars, channelVars, searchResultCache,
                   tmdbPosterCache, searches, refreshes, frames, view, inputValue,
                   logVars>>

(***************************************************************************)
(* displayMovies and the search flow                                       *)
(*                                                                         *)
(* A handler runs to its next await in one step.  Its intermediate values  *)
(* are threaded through a record S: hidden, controllers, recsController,   *)
(* profile, stored, view, frames, netLog, and call (the call's own         *)
(* locals).                                                                *)
(***************************************************************************)
AdultIds == {680}        \* summaries the backend flags adult
PosterlessIds == {603}   \* summaries the backend sends without any poster field

Content(kind, movies, by) == [kind |-> kind, movies |-> movies, by |-> by]

\* no encoding at all
encodeCharRaw(c) == <<c>>

\* URLSearchParams.toString: application/x-www-form-urlencoded
encodeChar(c) ==
    CASE c = " " -> <<"+">>
      [] c = "|" -> <<"%","7","C">>
      [] c = "," -> <<"%","2","C">>
      [] c = "&" -> <<"%","2","6">>
      [] c = "=" -> <<"%","3","D">>
      [] c = "%" -> <<"%","2","5">>
      [] c = "+" -> <<"%","2","B">>
      [] OTHER -> <<c>>

RECURSIVE encode(_)
encode(s) == IF s = <<>> THEN <<>> ELSE encodeChar(Head(s)) \o encode(Tail(s))

\* cacheKey of searchMovies: params.toString()
searchCacheKey(query) ==
    <<"q","u","e","r","y","=">> \o encode(query)
      \o (IF userProfile.safe_mode THEN <<"&","s","a","f","e","_","m","o","d","e","=","t","r","u","e">> ELSE <<>>)
      \o (IF Len(userProfile.language) > 0
          THEN <<"&","l","a","n","g","u","a","g","e","s","=">> \o encode(join(userProfile.language, <<",">>))
          ELSE <<>>)
      \o <<"&","l","i","m","i","t","=","1","0">>

\* the ids enrichMoviePosters fetches from TMDB for the cards to show
posterFetches(visible) ==
    LET toFix == SelectSeq(visible, LAMBDA m : m \in PosterlessIds) IN
    {m \in Range(slice(toFix, ENRICH_LIMIT)) : m \notin tmdbPosterCache}

\* displayMovies(movies, container) up to the await of enrichMoviePosters; when
\* nothing has to be fetched it runs on to requestAnimationFrame
displayMovies(S, movies, container, by) ==
    LET filtered == SelectSeq(movies, LAMBDA m : ~(S.profile.safe_mode /\ m \in AdultIds))
        visible == slice(filtered, VISIBLE_MOVIES)
        fetches == posterFetches(visible)
        frame == [container |-> container, movies |-> visible, by |-> by]
    IN
    IF filtered = <<>>
    THEN [S EXCEPT !.view[container] = Content("none", <<>>, by),
                   !.call.fetches = {}]
    ELSE IF fetches = {}
    THEN [S EXCEPT !.view[container] = Content("skeleton", <<>>, by),
                   !.frames = Append(@, frame),
                   !.call.fetches = {},
                   !.call.visible = visible]
    ELSE [S EXCEPT !.view[container] = Content("skeleton", <<>>, by),
                   !.call.fetches = fetches,
                   !.call.visible = visible]

\* a finally block that also clears the search results
searchFinallyClears(S, pc) ==
    [S EXCEPT !.hidden = Hide(Hide(@, "loading-spinner"), "search-results"),
              !.view["search-movies"] = Content("none", <<>>, 0),
              !.call.pc = pc]

\* the finally block of searchMovies
searchFinally(S, pc) ==
    [S EXCEPT !.hidden = Hide(@, "loading-spinner"), !.call.pc = pc]

\* searchMovies returning without the recommendations of the first result
fetchRecommendationsSkipped(S) == searchFinally(S, "done")

\* searchMovies from "Fetch recommendations for first result" to the fetch
fetchRecommendations(S) ==
    LET ctls == begin(S.controllers, S.recsController, "recommendations") IN
    [S EXCEPT !.controllers = ctls,
              !.recsController = Len(ctls),
              !.call.recsSignal = Len(ctls),
              !.call.pc = "recs",
              !.netLog = Append(@, [endpoint |-> "/recommendations", from |-> "search",
                                    query |-> <<S.call.results[1]>>, at |-> now])]

\* searchMovies from the end of the cache lookup to its next await;
\* body is the parsed JSON: [kind |-> "list", movies] or [kind |-> "object"]
\* (the search box holds the focus while a search runs, so the focus() of
\* the empty branch raises no focus event)
afterResults(S, i, body) ==
    IF body.kind = "list" /\ Len(body.movies) > 0
    THEN LET history == addToHistoryList(S.profile.history, body.movies[1])
             profile == [S.profile EXCEPT !.history = history]
             S1 == [S EXCEPT !.profile = profile,
                             !.stored = IF Contains(S.profile.history, body.movies[1])
                                        THEN @ ELSE profile,
                             !.hidden = Show(@, "search-results"),
                             !.call.body = body.kind,
                             !.call.results = body.movies]
             S2 == displayMovies(S1, body.movies, "search-movies", i)
         IN IF S2.call.fetches # {}
            THEN [S2 EXCEPT !.call.pc = "enrich"]
            ELSE fetchRecommendations(S2)
    ELSE searchFinally(
            [S EXCEPT !.hidden = Hide(Hide(@, "search-results"), "recommendations"),
                      !.call.body = body.kind],
            "done")

\* the state a step of search call i starts from
Entry(call) ==
    [hidden |-> hidden, controllers |-> controllers, recsController |-> recsController,
     profile |-> userProfile, stored |-> storedProfile, view |-> view,
     frames |-> frames, netLog |-> netLog, call |-> call]

\* the state a step ends in
Commit(S) ==
    /\ hidden' = S.hidden
    /\ controllers' = S.controllers
    /\ recsController' = S.recsController
    /\ userProfile' = S.profile
    /\ storedProfile' = S.stored
    /\ view' = S.view
    /\ frames' = S.frames
    /\ netLog' = S.netLog

\* history variable: where each earlier call stood when a new call started
superseded(calls) ==
    [j \in DOMAIN calls |->
        IF calls[j].supersededAt = "no"
        THEN [calls[j] EXCEPT !.supersededAt = calls[j].pc]
        ELSE calls[j]]

\* ... of search call i
Leave(S, i) ==
    /\ Commit(S)
    /\ searches' = IF i \in DOMAIN searches
                   THEN [searches EXCEPT ![i] = S.call]
                   ELSE Append(superseded(searches), S.call)

\* searchMovies(query) up to its first await, as its callers run it
searchMoviesCall(query) ==
    /\ IF trim(query) = <<>>
       THEN UNCHANGED <<profileVars, now, timerVars, channelVars, cacheVars, callVars,
                        pageVars, currentSuggestions, selectedSuggestionIndex,
                        suggestionsContent, eventLog, callLog, netLog, mutations,
                        mutationLog, idsSeen>>
       ELSE /\ Len(searches) < MaxSearches
            /\ LET i == Len(searches) + 1
                   cacheKey == searchCacheKey(query)
                   ctls == begin(abort(controllers, recsController),
                                 searchController, "search")
                   call == [query |-> query, cacheKey |-> cacheKey, pc |-> "fetch",
                            signal |-> Len(ctls), recsSignal |-> 0,
                            body |-> "none", results |-> <<>>, visible |-> <<>>,
                            fetches |-> {},
                            startedAt |-> now, supersededAt |-> "no",
                            language |-> userProfile.language,
                            safe_mode |-> userProfile.safe_mode,
                            path |-> IF isFresh(searchResultCache, cacheKey)
                                     THEN "hit" ELSE "fetch",
                            entryAt |-> IF cacheKey \in DOMAIN searchResultCache
                                        THEN searchResultCache[cacheKey].time ELSE -1]
                   S == [Entry(call) EXCEPT
                            !.hidden = Hide(Show(@, "loading-spinner"), "search-suggestions"),
                            !.controllers = ctls]
               IN /\ searchController' = Len(ctls)
                  /\ selectedSuggestionIndex' = -1
                  /\ IF isFresh(searchResultCache, cacheKey)
                     THEN Leave(afterResults(S, i, searchResultCache[cacheKey].results), i)
                     ELSE Leave([S EXCEPT !.netLog = Append(@,
                                    [endpoint |-> "/search", from |-> "search",
                                     query |-> query, at |-> now])], i)
            /\ UNCHANGED <<watchlist, now, timerVars, suggestionsController, cacheVars,
                           refreshes, suggests, currentSuggestions,
                           suggestionsContent, eventLog, callLog, mutations, mutationLog, idsSeen>>

\* searchMovies(query), called by the search button
searchMovies(query) ==
    /\ lastCall' = [op |-> "searchMovies", query |-> query]
    /\ searchMoviesCall(query)
    /\ UNCHANGED inputValue

\* the title of the first entry of the fixed list
titleFirst(id) == commonMovies[1].title

\* movie.title of a suggestion
title(id) ==
    (CHOOSE movie \in Range(commonMovies) : movie.id = id).title

\* selectSuggestion(index), as its callers run it; index counts from 0
selectSuggestionCall(index) ==
    IF index >= 0 /\ index < Len(currentSuggestions)
    THEN LET movie == currentSuggestions[index + 1] IN
         /\ inputValue' = title(movie)
         /\ IF trim(title(movie)) = <<>>
            THEN /\ hideSuggestions
                 /\ UNCHANGED <<profileVars, now, timerVars, channelVars, cacheVars,
                                callVars, view, currentSuggestions, suggestionsContent,
                                eventLog, callLog, netLog, mutations, mutationLog,
                                idsSeen>>
            ELSE searchMoviesCall(title(movie))
    ELSE UNCHANGED <<profileVars, now, timerVars, channelVars, cacheVars, callVars,
                     pageVars, suggestVars, eventLog, callLog, netLog, mutations,
                     mutationLog, idsSeen>>

\* a click on the suggestion rendered with data-index = index
selectSuggestion(index) ==
    /\ lastCall' = [op |-> "selectSuggestion", index |-> index]
    /\ selectSuggestionCall(index)

\* handleSuggestionEnter: 'keydown' with Enter
handleSuggestionEnter ==
    LET index == selectedSuggestionIndex
        query == trim(inputValue)
    IN
    /\ lastCall' = [op |-> "handleSuggestionEnter"]
    /\ IF index >= 0 /\ index < Len(currentSuggestions)
       THEN selectSuggestionCall(index)
       ELSE IF query # <<>>
       THEN searchMoviesCall(query) /\ UNCHANGED inputValue
       ELSE UNCHANGED <<profileVars, now, timerVars, channelVars, cacheVars, callVars,
                        pageVars, suggestVars, eventLog, callLog, netLog, mutations,
                        mutationLog, idsSeen>>

\* a fetch of searchMovies may settle only while its signal is not aborted
deliverableAlways(signal) == TRUE

deliverable(signal) == ~controllers[signal].aborted

\* the /search fetch settles: a JSON list, a JSON body that is no list, or a
\* transport error
searchSettles(i, response) ==
    /\ i \in DOMAIN searches
    /\ searches[i].pc = "fetch"
    /\ deliverable(searches[i].signal)
    /\ IF response.kind = "error"
       THEN /\ Leave(searchFinally(Entry(searches[i]), "failed"), i)
            /\ UNCHANGED searchResultCache
       ELSE /\ searchResultCache' = cacheSet(searchResultCache, searches[i].cacheKey, response)
            /\ Leave(afterResults(Entry(searches[i]), i, response), i)
    /\ UNCHANGED <<watchlist, now, timerVars, suggestionsController, searchController,
                   suggestionCache, tmdbPosterCache, refreshes, suggests,
                   suggestVars, eventLog, callLog, mutations, mutationLog, idsSeen, lastCall>>

\* the /search fetch rejects with AbortError: catch and finally
searchAborted(i) ==
    /\ i \in DOMAIN searches
    /\ searches[i].pc = "fetch"
    /\ ~deliverable(searches[i].signal)
    /\ Leave(searchFinally(Entry(searches[i]), "abortedFetch"), i)
    /\ UNCHANGED <<watchlist, now, timerVars, suggestionsController, searchController,
                   cacheVars, refreshes, suggests,
                   suggestVars, eventLog, callLog, mutations, mutationLog, idsSeen, lastCall>>

\* enrichMoviePosters settles inside displayMovies(results, 'search-movies'):
\* the cards are handed to requestAnimationFrame and searchMovies goes on to the
\* recommendations of the first result
searchEnrichSettles(i, ok) ==
    /\ i \in DOMAIN searches
    /\ searches[i].pc = "enrich"
    /\ tmdbPosterCache' = IF ok THEN tmdbPosterCache \cup searches[i].fetches
                          ELSE tmdbPosterCache
    /\ LET S == Entry(searches[i])
           frame == [container |-> "search-movies", movies |-> searches[i].visible, by |-> i]
       IN Leave(fetchRecommendations([S EXCEPT !.frames = Append(@, frame),
                                               !.call.fetches = {}]), i)
    /\ UNCHANGED <<watchlist, now, timerVars, suggestionsController, searchController,
                   searchResultCache, suggestionCache, refreshes, suggests,
                   suggestVars, eventLog, callLog, mutations, mutationLog, idsSeen, lastCall>>

\* the /recommendations fetch settles
recsSettles(i, response) ==
    /\ i \in DOMAIN searches
    /\ searches[i].pc = "recs"
    /\ deliverable(searches[i].recsSignal)
    /\ LET S == Entry(searches[i]) IN
       IF response.kind = "error"
       THEN Leave(searchFinally(S, "failed"), i)
       ELSE IF response.kind = "list" /\ Len(response.movies) > 0
       THEN LET S1 == displayMovies([S EXCEPT !.hidden = Show(@, "recommendations")],
                                    response.movies, "recommendation-movies", i)
            IN IF S1.call.fetches # {}
               THEN Leave([S1 EXCEPT !.call.pc = "enrichRecs"], i)
               ELSE Leave(searchFinally(S1, "done"), i)
       ELSE Leave(searchFinally([S EXCEPT !.hidden = Hide(@, "recommendations")], "done"), i)
    /\ UNCHANGED <<watchlist, now, timerVars, suggestionsController, searchController,
                   cacheVars, refreshes, suggests,
                   suggestVars, eventLog, callLog, mutations, mutationLog, idsSeen, lastCall>>

\* the /recommendations fetch rejects with AbortError: catch and finally
recsAborted(i) ==
    /\ i \in DOMAIN searches
    /\ searches[i].pc = "recs"
    /\ ~deliverable(searches[i].recsSignal)
    /\ Leave(searchFinally(Entry(searches[i]), "abortedRecs"), i)
    /\ UNCHANGED <<watchlist, now, timerVars, suggestionsController, searchController,
                   cacheVars, refreshes, suggests,
                   suggestVars, eventLog, callLog, mutations, mutationLog, idsSeen, lastCall>>

\* enrichMoviePosters settles inside displayMovies(recommendations, ...)
recsEnrichSettles(i, ok) ==
    /\ i \in DOMAIN searches
    /\ searches[i].pc = "enrichRecs"
    /\ tmdbPosterCache' = IF ok THEN tmdbPosterCache \cup searches[i].fetches
                          ELSE tmdbPosterCache
    /\ LET S == Entry(searches[i])
           frame == [container |-> "recommendation-movies",
                     movies |-> searches[i].visible, by |-> i]
       IN Leave(searchFinally([S EXCEPT !.frames = Append(@, frame),
                                        !.call.fetches = {}], "done"), i)
    /\ UNCHANGED <<watchlist, now, timerVars, suggestionsController, searchController,
                   searchResultCache, suggestionCache, refreshes, suggests,
                   suggestVars, eventLog, callLog, mutations, mutationLog, idsSeen, lastCall>>

RECURSIVE paint(_, _)
\* the callbacks handed to requestAnimationFrame run in order
paint(v, queue) ==
    IF queue = <<>> THEN v
    ELSE paint([v EXCEPT ![Head(queue).container] =
                    Content("cards", Head(queue).movies, Head(queue).by)],
               Tail(queue))

\* the next animation frame
animationFrame ==
    /\ frames # <<>>
    /\ view' = paint(view, frames)
    /\ frames' = <<>>
    /\ UNCHANGED <<profileVars, now, timerVars, channelVars, cacheVars,
                   searches, refreshes, suggests, hidden, suggestVars, logVars>>

(***************************************************************************)
(* The personalized refresh: the timer callback of                         *)
(* loadPersonalizedRecommendations                                         *)
(***************************************************************************)
RECURSIVE ids(_)
\* userProfile.watchlist.map(m => m.id || m)
ids(list) == IF list = <<>> THEN <<>> ELSE <<Head(list)>> \o ids(Tail(list))

\* the JSON body fetchPersonalizedRecommendations posts
payload ==
    [mood |-> userProfile.mood,
     language |-> userProfile.language,
     liked_movies |-> userProfile.liked_movies,
     disliked_movies |-> userProfile.disliked_movies,
     watchlist |-> ids(userProfile.watchlist)]

\* the callback up to the fetch of fetchPersonalizedRecommendations; the fetch is
\* given no signal
refreshTimerFires(t) ==
    /\ t \in timers
    /\ t.kind = "recs"
    /\ t.due <= now
    /\ timers' = timers \ {t}
    /\ LET r == Len(refreshes) + 1
           ctls == begin(controllers, recsController, "recommendations")
       IN /\ controllers' = ctls
          /\ recsController' = Len(ctls)
          /\ view' = [view EXCEPT !["user-recommendation-movies"] = Content("loading", <<>>, r)]
          /\ refreshes' = Append(refreshes,
                [pc |-> "fetch", payload |-> payload, controller |-> Len(ctls),
                 issuedAt |-> now, arrivedAfter |-> 0,
                 before |-> view["user-recommendation-movies"],
                 visible |-> <<>>, fetches |-> {}])
          /\ netLog' = Append(netLog, [endpoint |-> "/recommendations/user",
                                       from |-> "refresh", query |-> <<>>, at |-> now])
    /\ UNCHANGED <<profileVars, now, searchTimeout, recsDebounceTimeout,
                   suggestionsController, searchController, cacheVars, searches,
                   suggests, frames, hidden, suggestVars, eventLog, callLog,
                   mutations, mutationLog, idsSeen, lastCall>>

\* ... of refresh r
LeaveRefresh(S, r) ==
    /\ Commit(S)
    /\ refreshes' = [refreshes EXCEPT ![r] = S.call]

\* the response of /recommendations/user arrives: anything but an ok JSON
\* list counts as no recommendations
refreshSettles(r, response) ==
    /\ r \in DOMAIN refreshes
    /\ refreshes[r].pc = "fetch"
    /\ LET recommendedMovies == IF response.kind = "list" THEN response.movies ELSE <<>>
           container == "user-recommendation-movies"
           S == Entry([refreshes[r] EXCEPT !.arrivedAfter = Len(refreshes)])
       IN IF Len(recommendedMovies) > 0
          THEN LET S1 == displayMovies(S, recommendedMovies, container, r) IN
               LeaveRefresh([S1 EXCEPT !.call.pc =
                               IF S1.call.fetches # {} THEN "enrich" ELSE "done"], r)
          ELSE LeaveRefresh([S EXCEPT !.view[container] = Content("empty", <<>>, r),
                                      !.call.pc = "done"], r)
    /\ UNCHANGED <<watchlist, now, timerVars, suggestionsController, searchController,
                   cacheVars, searches, suggests, suggestVars, eventLog, callLog,
                   mutations, mutationLog, idsSeen, lastCall>>

\* enrichMoviePosters settles inside displayMovies(recommendedMovies, ...)
refreshEnrichSettles(r, ok) ==
    /\ r \in DOMAIN refreshes
    /\ refreshes[r].pc = "enrich"
    /\ tmdbPosterCache' = IF ok THEN tmdbPosterCache \cup refreshes[r].fetches
                          ELSE tmdbPosterCache
    /\ LET S == Entry(refreshes[r])
           frame == [container |-> "user-recommendation-movies",
                     movies |-> refreshes[r].visible, by |-> r]
       IN LeaveRefresh([S EXCEPT !.frames = Append(@, frame),
                                 !.call.fetches = {},
                                 !.call.pc = "done"], r)
    /\ UNCHANGED <<watchlist, now, timerVars, suggestionsController, searchController,
                   searchResultCache, suggestionCache, searches, suggests,
                   suggestVars, eventLog, callLog, mutations, mutationLog, idsSeen, lastCall>>

(***************************************************************************)
(* The clock                                                               *)
(***************************************************************************)
\* the instants at which the clock is observed: the first FineWindow ms of
\* every CACHE_TTL_MS period
ClockValue(t) == t <= MaxTime /\ (t % CACHE_TTL_MS) <= FineWindow

\* time passes; a due timer fires before the clock moves past it
tick(d) ==
    /\ ClockValue(now + d)
    /\ \A t \in timers : now + d <= t.due
    /\ now' = now + d
    /\ UNCHANGED <<profileVars, timerVars, channelVars, cacheVars, callVars,
                   pageVars, suggestVars, logVars>>

\* time passes up to the next due timer
waitForTimer ==
    /\ \E t \in timers :
          /\ \A u \in timers : t.due <= u.due
          /\ now < t.due
          /\ t.due <= MaxTime
          /\ now' = t.due
    /\ UNCHANGED <<profileVars, timerVars, channelVars, cacheVars, callVars,
                   pageVars, suggestVars, logVars>>

DetailIds == (1..RevisitIds) \cup {idsSeen + 1}
RatedIds == {1, 2}
Containers == {"search-movies", "recommendation-movies", "user-recommendation-movies"}
Elements ==
    {"search-suggestions", "search-results", "recommendations", "loading-spinner", "toast"}
InputTexts == {<<" ">>, <<"a">>, <<"a","v">>, <<"z","z">>}
matrix == <<"m","a","t","r","i","x">>
inception == <<"i","n","c","e","p","t","i","o","n">>
SearchQueries == {<<" ">>, matrix, inception}
ResultLists == {<<>>, <<603>>, <<27205, 680>>}
SuggestResponses ==
    {[kind |-> "list", movies |-> <<603>>], [kind |-> "error", movies |-> <<>>]}
Responses ==
    {[kind |-> "list", movies |-> m] : m \in ResultLists}
        \cup {[kind |-> "object", movies |-> <<>>], [kind |-> "error", movies |-> <<>>]}
ChannelResponses ==
    {[kind |-> "list", movies |-> <<603>>], [kind |-> "error", movies |-> <<>>]}
\* responses whose movies come with a poster
CacheResponses ==
    {[kind |-> "list", movies |-> <<27205>>], [kind |-> "error", movies |-> <<>>]}
WatchlistIds == 1..3
Moods == {"happy", "sad"}

(***************************************************************************)
(* Initial state: initializeApp with nothing in localStorage               *)
(***************************************************************************)
Init ==
    /\ userProfile = DefaultProfile
    /\ watchlist = <<>>
    /\ storedProfile = DefaultProfile
    /\ now = 0
    /\ timers = {}
    /\ searchTimeout = NoTimer
    /\ recsDebounceTimeout = NoTimer
    /\ controllers = <<>>
    /\ suggestionsController = 0
    /\ searchController = 0
    /\ recsController = 0
    /\ searchResultCache = <<>>
    /\ suggestionCache = <<>>
    /\ tmdbPosterCache = {}
    /\ searches = <<>>
    /\ refreshes = <<>>
    /\ suggests = <<>>
    /\ frames = <<>>
    /\ view = [c \in Containers |-> [kind |-> "initial", movies |-> <<>>, by |-> 0]]
    /\ hidden = [e \in Elements |-> TRUE]
    /\ inputValue = <<>>
    /\ currentSuggestions = <<>>
    /\ selectedSuggestionIndex = -1
    /\ suggestionsContent = [kind |-> "initial", items |-> <<>>]
    /\ eventLog = <<>>
    /\ callLog = <<>>
    /\ netLog = <<>>
    /\ mutations = 0
    /\ mutationLog = <<>>
    /\ idsSeen = 0
    /\ lastCall = [op |-> "none"]

(***************************************************************************)
(* The profile store alone: ratings and the detail modal                   *)
(***************************************************************************)
NextProfile ==
    \/ \E movieId \in RatedIds, liked \in BOOLEAN : rateMovie(movieId, liked)
    \/ \E movie \in RatedIds : toggleWatchlist(movie)
    \/ \E mood \in Moods : moodButtonClick(mood)

SpecProfile == Init /\ [][NextProfile]_vars

(***************************************************************************)
(* The watchlist, starting from a stored profile                           *)
(***************************************************************************)
\* the watchlists saveUserProfile can have written, over WatchlistIds
StoredWatchlists ==
    {w \in UNION {[1..n -> WatchlistIds] : n \in 0..MaxWatchlist} :
        \A i, j \in DOMAIN w : i # j => w[i] # w[j]}

\* initializeApp with a profile in localStorage: loadUserProfile
InitWatchlist ==
    /\ \E w \in StoredWatchlists :
          /\ userProfile = [DefaultProfile EXCEPT !.watchlist = w]
          /\ storedProfile = [DefaultProfile EXCEPT !.watchlist = w]
          /\ watchlist = w
    /\ now = 0
    /\ timers = {}
    /\ searchTimeout = NoTimer
    /\ recsDebounceTimeout = NoTimer
    /\ controllers = <<>>
    /\ suggestionsController = 0
    /\ searchController = 0
    /\ recsController = 0
    /\ searchResultCache = <<>>
    /\ suggestionCache = <<>>
    /\ tmdbPosterCache = {}
    /\ searches = <<>>
    /\ refreshes = <<>>
    /\ suggests = <<>>
    /\ frames = <<>>
    /\ view = [c \in Containers |-> [kind |-> "initial", movies |-> <<>>, by |-> 0]]
    /\ hidden = [e \in Elements |-> TRUE]
    /\ inputValue = <<>>
    /\ currentSuggestions = <<>>
    /\ selectedSuggestionIndex = -1
    /\ suggestionsContent = [kind |-> "initial", items |-> <<>>]
    /\ eventLog = <<>>
    /\ callLog = <<>>
    /\ netLog = <<>>
    /\ mutations = 0
    /\ mutationLog = <<>>
    /\ idsSeen = 0
    /\ lastCall = [op |-> "none"]

NextWatchlist ==
    \E movie \in WatchlistIds : toggleWatchlist(movie)

SpecWatchlist == InitWatchlist /\ [][NextWatchlist]_vars

NextHistory ==
    \E movieId \in DetailIds : showMovieDetail(movieId)

SpecHistory == Init /\ [][NextHistory]_vars

(***************************************************************************)
(* Ratings                                                                 *)
(***************************************************************************)
RatingsDisjoint ==
    Range(userProfile.liked_movies) \cap Range(userProfile.disliked_movies) = {}

\* C5: liked_movies and disliked_movies are disjoint after any sequence of rateMovie
\* calls; rateMovie(id, true) leaves id liked and not disliked, rateMovie(id, false)
\* leaves it disliked and not liked.
C5_RatingsDisjoint ==
    /\ []RatingsDisjoint
    /\ [][\A movieId \in RatedIds : \A liked \in BOOLEAN :
            rateMovie(movieId, liked) =>
                IF liked
                THEN /\ Contains(userProfile'.liked_movies, movieId)
                     /\ ~Contains(userProfile'.disliked_movies, movieId)
                ELSE /\ Contains(userProfile'.disliked_movies, movieId)
                     /\ ~Contains(userProfile'.liked_movies, movieId)]_vars

\* a movie that was liked is now disliked, next to another liked one
C5_Witness ==
    /\ userProfile.disliked_movies = <<1>>
    /\ userProfile.liked_movies = <<2>>
    /\ mutations = 3

(***************************************************************************)
(* History                                                                 *)
(***************************************************************************)
NoDuplicates(seq) == \A i \in DOMAIN seq : \A j \in DOMAIN seq : seq[i] = seq[j] => i = j

\* C8: the history holds no id twice and never more than 100 ids.
C8_HistoryBounded ==
    /\ NoDuplicates(userProfile.history)
    /\ Len(userProfile.history) <= HISTORY_CAP

\* the 101st distinct id has pushed the oldest one out
C8_Witness ==
    /\ Len(userProfile.history) = HISTORY_CAP
    /\ idsSeen = HISTORY_CAP + 1
    /\ ~Contains(userProfile.history, 1)

\* C9 as stated: after addToHistory(id) the id is the first element of the history,
\* also when it was already in the list: it is then moved to the front and the
\* other ids keep their relative order.
C9_MostRecentFirst ==
    [][\A movieId \in DetailIds :
          showMovieDetail(movieId) =>
              /\ Head(userProfile'.history) = movieId
              /\ Contains(userProfile.history, movieId) =>
                    Without(userProfile'.history, movieId)
                        = Without(userProfile.history, movieId)]_vars

(***************************************************************************)
(* Searches and animation frames                                           *)
(***************************************************************************)
\* searches, profile changes and key strokes so far
UserEvents == Len(searches) + mutations + Len(eventLog)

NextSearch ==
    \/ \E query \in SearchQueries : searchMovies(query)
    \/ \E i \in DOMAIN searches : searchAborted(i)
    \/ \E i \in DOMAIN searches, response \in Responses : searchSettles(i, response)
    \/ \E i \in DOMAIN searches, ok \in BOOLEAN : searchEnrichSettles(i, ok)
    \/ \E i \in DOMAIN searches : recsAborted(i)
    \/ \E i \in DOMAIN searches, response \in Responses : recsSettles(i, response)
    \/ \E i \in DOMAIN searches, ok \in BOOLEAN : recsEnrichSettles(i, ok)
    \/ animationFrame

SpecSearch == Init /\ [][NextSearch]_vars

(***************************************************************************)
(* Personalized refreshes                                                  *)
(***************************************************************************)
NextRefresh ==
    \/ \E mood \in Moods : moodButtonClick(mood)
    \/ waitForTimer
    \/ \E t \in timers : refreshTimerFires(t)
    \/ \E r \in DOMAIN refreshes, response \in Responses : refreshSettles(r, response)
    \/ \E r \in DOMAIN refreshes, ok \in BOOLEAN : refreshEnrichSettles(r, ok)
    \/ animationFrame

SpecRefresh == Init /\ [][NextRefresh]_vars

(***************************************************************************)
(* The three request channels together                                     *)
(***************************************************************************)
Next ==
    \/ \E query \in SearchQueries : UserEvents < MaxEvents /\ searchMovies(query)
    \/ \E i \in DOMAIN searches : searchAborted(i)
    \/ \E i \in DOMAIN searches, response \in ChannelResponses : searchSettles(i, response)
    \/ \E i \in DOMAIN searches, ok \in BOOLEAN : searchEnrichSettles(i, ok)
    \/ \E i \in DOMAIN searches : recsAborted(i)
    \/ \E i \in DOMAIN searches, response \in ChannelResponses : recsSettles(i, response)
    \/ \E i \in DOMAIN searches : recsEnrichSettles(i, TRUE)
    \/ animationFrame
    \/ UserEvents < MaxEvents /\ moodButtonClick("sad")
    \/ waitForTimer
    \/ \E t \in timers : refreshTimerFires(t)
    \/ \E r \in DOMAIN refreshes, response \in ChannelResponses : refreshSettles(r, response)
    \/ \E r \in DOMAIN refreshes : refreshEnrichSettles(r, TRUE)
    \/ UserEvents < MaxEvents /\ inputEvent(<<"z","z">>)
    \/ \E t \in timers : suggestTimerFires(t)
    \/ \E i \in DOMAIN suggests : suggestAborted(i)
    \/ \E i \in DOMAIN suggests, response \in ChannelResponses : suggestSettles(i, response)

Spec == Init /\ [][Next]_vars

(***************************************************************************)
(* The two caches while CACHE_TTL_MS passes                                *)
(***************************************************************************)
NextCache ==
    \/ UserEvents < MaxLookups /\ searchMovies(matrix)
    \/ \E i \in DOMAIN searches : searchAborted(i)
    \/ \E i \in DOMAIN searches, response \in CacheResponses : searchSettles(i, response)
    \/ \E i \in DOMAIN searches : recsAborted(i)
    \/ \E i \in DOMAIN searches : recsSettles(i, [kind |-> "list", movies |-> <<27205>>])
    \/ animationFrame
    \/ UserEvents < MaxLookups /\ inputEvent(<<"z","z">>)
    \/ UserEvents < MaxLookups /\ focusEvent
    \/ \E t \in timers : suggestTimerFires(t)
    \/ \E i \in DOMAIN suggests : suggestAborted(i)
    \/ \E i \in DOMAIN suggests, response \in CacheResponses : suggestSettles(i, response)
    \/ waitForTimer
    \/ tick(CACHE_TTL_MS)

SpecCache == Init /\ [][NextCache]_vars

(***************************************************************************)
(* The suggestion pipeline under a fine clock                              *)
(***************************************************************************)
NextDebounce ==
    \/ \E text \in InputTexts : inputEvent(text)
    \/ focusEvent
    \/ \E t \in timers : suggestTimerFires(t)
    \/ \E i \in DOMAIN suggests : suggestAborted(i)
    \/ \E i \in DOMAIN suggests, response \in SuggestResponses : suggestSettles(i, response)
    \/ tick(50)

SpecDebounce == Init /\ [][NextDebounce]_vars

(***************************************************************************)
(* Debounce                                                                *)
(***************************************************************************)
NonEmptyInput(e) == e.kind = "input" /\ trim(e.text) # <<>>

\* events i..j are non-empty input events, each less than 150 ms after the previous
IsBurst(i, j) ==
    /\ i <= j
    /\ \A k \in i..j : NonEmptyInput(eventLog[k])
    /\ \A k \in i..(j - 1) : eventLog[k + 1].at - eventLog[k].at < SUGGEST_DEBOUNCE_MS

\* no event follows event j within the quiescence window, and the window is over
BurstClosed(j) ==
    IF j = Len(eventLog)
    THEN now > eventLog[j].at + SUGGEST_DEBOUNCE_MS
    ELSE eventLog[j + 1].at > eventLog[j].at + SUGGEST_DEBOUNCE_MS

\* the getSearchSuggestions calls made after event i and up to 150 ms after event j
CallsOfBurst(i, j) ==
    {c \in DOMAIN callLog :
        /\ callLog[c].at > eventLog[i].at
        /\ callLog[c].at <= eventLog[j].at + SUGGEST_DEBOUNCE_MS}

\* C7: a burst of N >= 1 non-empty input events, each less than 150 ms after the
\* previous one, produces exactly one getSearchSuggestions call; the call carries
\* the (trimmed) text of the last event and is made 150 ms after it.
C7_DebounceOneCall ==
    \A i \in DOMAIN eventLog : \A j \in DOMAIN eventLog :
        (IsBurst(i, j) /\ BurstClosed(j)) =>
            \E c \in DOMAIN callLog :
                /\ CallsOfBurst(i, j) = {c}
                /\ callLog[c].query = trim(eventLog[j].text)
                /\ callLog[c].at = eventLog[j].at + SUGGEST_DEBOUNCE_MS

\* a closed burst of three events with different texts, and its single call
C7_Witness ==
    \E i \in DOMAIN eventLog : \E j \in DOMAIN eventLog :
        /\ j = i + 2
        /\ IsBurst(i, j) /\ BurstClosed(j)
        /\ eventLog[i].text # eventLog[j].text
        /\ eventLog[j].at > eventLog[i].at
        /\ Cardinality(CallsOfBurst(i, j)) = 1

(***************************************************************************)
(* The one-character query                                                 *)
(***************************************************************************)
CallMade == Len(callLog') = Len(callLog) + 1
LastCall == callLog'[Len(callLog')]
Avatar == 19995
TheAvengers == 24428

AwaitPoints == {"fetch", "enrich", "recs", "enrichRecs"}
SearchViews == {"search-movies", "recommendation-movies"}

\* search call i takes a step
Moved(i) == searches'[i] # searches[i]

\* C1: for two searchMovies calls A then B, B starting while A is suspended
\* at one of its awaits, no effect of A is applied after B has started: A
\* writes nothing to searchResultCache, inserts nothing into the history,
\* does not un-hide the results or the recommendations section, and none of
\* the two views changes to content of A.
C1_NoEffectOnceSuperseded ==
    [][\A i \in DOMAIN searches :
          searches[i].supersededAt \in AwaitPoints =>
             /\ Moved(i) =>
                   /\ searchResultCache' = searchResultCache
                   /\ userProfile'.history = userProfile.history
                   /\ hidden["search-results"] => hidden'["search-results"]
                   /\ hidden["recommendations"] => hidden'["recommendations"]
             /\ \A c \in SearchViews :
                   view'[c] # view[c] => view'[c].by # i]_vars

\* searchMovies("inception") was called while the /search fetch of
\* searchMovies("matrix") was pending
MatrixThenInception ==
    /\ Len(searches) = 2
    /\ searches[1].query = matrix
    /\ searches[1].supersededAt = "fetch"
    /\ searches[2].query = inception

\* the /recommendations requests of the search flow so far
ChainedFrom ==
    {netLog[n].query : n \in {m \in DOMAIN netLog : netLog[m].endpoint = "/recommendations"}}

\* C2: when searchMovies("inception") is called while the /search fetch of
\* searchMovies("matrix") is pending, only the results of "inception" and
\* the recommendations chained from its top result are written to the two
\* views, the history and the search cache; the response for "matrix"
\* changes none of them.
C2_OnlyInception ==
    MatrixThenInception =>
        /\ \A c \in SearchViews : view[c].by \in {0, 2}
        /\ \A f \in Range(frames) : f.by = 2
        /\ DOMAIN searchResultCache \subseteq {searches[2].cacheKey}
        /\ userProfile.history \in {<<>>, slice(searches[2].results, 1)}
        /\ ChainedFrom \subseteq {slice(searches[2].results, 1)}
        /\ view["search-movies"].kind = "cards" =>
              view["search-movies"].movies =
                 slice(SelectSeq(searches[2].results, LAMBDA m : ~(userProfile.safe_mode /\ m \in AdultIds)),
                       VISIBLE_MOVIES)
        /\ searches[1].results = <<>>
        /\ searches[1].pc \in {"fetch", "abortedFetch"}

\* "inception" has been shown with its recommendations after "matrix" was cut
\* off
C2_Witness ==
    /\ MatrixThenInception
    /\ searches[1].pc = "abortedFetch"
    /\ searches[2].pc = "done"
    /\ view["search-movies"] = Content("cards", <<27205>>, 2)
    /\ view["recommendation-movies"].kind = "cards"
    /\ view["recommendation-movies"].by = 2
    /\ userProfile.history = <<27205>>
    /\ DOMAIN searchResultCache = {searches[2].cacheKey}

(***************************************************************************)
(* Overlapping refreshes                                                   *)
(***************************************************************************)
\* the response of refresh r arrives, or has arrived, after a later refresh
\* was issued
ArrivedLate(r) ==
    IF refreshes[r].pc = "fetch"
    THEN Len(refreshes) > r
    ELSE refreshes[r].arrivedAfter > r

\* C3: for two refreshes R1 then R2, the response of R1 arriving after R2
\* was issued, the result of R1 is never rendered into the personalized
\* recommendation view.
C3_LateRefreshNotRendered ==
    [][\A r \in DOMAIN refreshes :
          ArrivedLate(r) =>
             ~ /\ view'["user-recommendation-movies"] # view["user-recommendation-movies"]
               /\ view'["user-recommendation-movies"].by = r]_vars

(***************************************************************************)
(* One live controller per channel                                         *)
(***************************************************************************)
Channels == {"suggestions", "search", "recommendations"}

Live(channel) ==
    {c \in DOMAIN controllers :
        controllers[c].channel = channel /\ ~controllers[c].aborted}

Registered(channel) == {c \in DOMAIN controllers : controllers[c].channel = channel}

\* the controller a channel variable held is aborted when the variable is
\* assigned
Reassigned(old, new) ==
    new # old => /\ old = 0 \/ controllers'[old].aborted
                 /\ new \notin DOMAIN controllers
                 /\ new \in DOMAIN controllers'

\* C4: on each of the three channels at most one registered controller is
\* non-aborted, and whenever a channel variable is assigned a new controller
\* the controller it held has been aborted.
C4_OneLiveController ==
    /\ [](\A channel \in Channels : Cardinality(Live(channel)) <= 1)
    /\ [][/\ Reassigned(suggestionsController, suggestionsController')
          /\ Reassigned(searchController, searchController')
          /\ Reassigned(recsController, recsController')]_vars

\* the search and the recommendations variable have been reassigned, and a
\* suggestion request is on its channel
C4_Witness ==
    /\ Cardinality(Registered("search")) >= 2
    /\ Cardinality(Registered("recommendations")) >= 2
    /\ Cardinality(Registered("suggestions")) >= 1
    /\ Cardinality(Live("recommendations")) = 1

(***************************************************************************)
(* Cache lookups                                                           *)
(***************************************************************************)
SearchRequests(log) == SelectSeq(log, LAMBDA n : n.endpoint = "/search")

\* getSearchSuggestions was called and went to suggestionCache
SuggestionLookup ==
    /\ Len(callLog') = Len(callLog) + 1
    /\ callLog'[Len(callLog')].path \in {"hit", "fetch"}
    /\ suggestionCacheKey(callLog'[Len(callLog')].query) \in DOMAIN suggestionCache

\* searchMovies was called and went to searchResultCache
SearchLookup ==
    /\ Len(searches') = Len(searches) + 1
    /\ searches'[Len(searches')].cacheKey \in DOMAIN searchResultCache

\* C6: in both caches a lookup of a key at the time it was stored gives the
\* stored list and sends no /search request; a lookup later than the store
\* time plus CACHE_TTL_MS is a miss and sends the request.
C6_CacheTTL ==
    [][/\ SuggestionLookup =>
             LET query == callLog'[Len(callLog')].query
                 entry == suggestionCache[suggestionCacheKey(query)]
             IN /\ now = entry.time =>
                      /\ currentSuggestions' = entry.results
                      /\ netLog' = netLog
                      /\ UNCHANGED <<suggests, suggestionCache>>
                /\ now > entry.time + CACHE_TTL_MS =>
                      /\ netLog' = Append(netLog, [endpoint |-> "/search",
                                                   from |-> "suggestions",
                                                   query |-> query, at |-> now])
                      /\ suggests'[Len(suggests')].pc = "fetch"
                      /\ Len(suggests') = Len(suggests) + 1
       /\ SearchLookup =>
             LET call == searches'[Len(searches')]
                 entry == searchResultCache[call.cacheKey]
             IN /\ now = entry.time =>
                      /\ SearchRequests(netLog') = SearchRequests(netLog)
                      /\ call.pc # "fetch"
                      /\ entry.results.kind = "list" /\ entry.results.movies # <<>> =>
                            /\ call.results = entry.results.movies
                            /\ view'["search-movies"].by = Len(searches')
                /\ now > entry.time + CACHE_TTL_MS =>
                      /\ netLog' = Append(netLog, [endpoint |-> "/search",
                                                   from |-> "search",
                                                   query |-> call.query, at |-> now])
                      /\ call.pc = "fetch"
                      /\ view' = view]_vars

\* a search served from an entry stored at the same instant, and a
\* suggestion lookup that found its entry older than CACHE_TTL_MS
C6_Witness ==
    /\ \E i \in DOMAIN searches :
          /\ searches[i].entryAt = searches[i].startedAt
          /\ searches[i].path = "hit"
          /\ searches[i].results # <<>>
    /\ \E c \in DOMAIN callLog :
          /\ callLog[c].entryAt >= 0
          /\ callLog[c].at > callLog[c].entryAt + CACHE_TTL_MS
          /\ callLog[c].path = "fetch"

(***************************************************************************)
(* The recommendations section after an empty search                       *)
(***************************************************************************)
\* the latest searchMovies call has completed with an empty result list
LatestSearchEmpty ==
    /\ searches # <<>>
    /\ searches[Len(searches)].pc = "done"
    /\ searches[Len(searches)].body = "list"
    /\ searches[Len(searches)].results = <<>>

\* C11: after a searchMovies call with an empty result list has completed,
\* the recommendations section is hidden and stays hidden as long as no
\* further search is started; no recommendations response of an earlier
\* search shows it again.
C11_EmptySearchHidesRecommendations ==
    LatestSearchEmpty => hidden["recommendations"]

(***************************************************************************)
(* Toggling the watchlist twice                                            *)
(***************************************************************************)
\* toggleWatchlist(m) is called right after toggleWatchlist(m), the first
\* call having found m absent
SecondToggle(m) ==
    /\ toggleWatchlist(m)
    /\ lastCall.op = "toggleWatchlist"
    /\ lastCall.movie = m
    /\ ~Contains(lastCall.before, m)

\* C12: for a watchlist W and a movie m whose id is not in W, two calls of
\* toggleWatchlist(m) leave m out of the watchlist, and the persisted
\* userProfile.watchlist has the length and the ids it had before the calls.
C12_ToggleTwice ==
    [][\A m \in WatchlistIds :
          SecondToggle(m) =>
             /\ ~Contains(watchlist', m)
             /\ ~Contains(userProfile'.watchlist, m)
             /\ Len(storedProfile'.watchlist) = Len(lastCall.before)
             /\ Range(storedProfile'.watchlist) = Range(lastCall.before)
             /\ storedProfile'.watchlist = userProfile'.watchlist]_vars

\* movie 3 was added to the stored watchlist <<1, 2>> and removed again
C12_Witness ==
    /\ mutations = 2
    /\ lastCall.op = "toggleWatchlist"
    /\ lastCall.movie = 3
    /\ lastCall.before = <<1, 2, 3>>
    /\ watchlist = <<1, 2>>
    /\ storedProfile.watchlist = <<1, 2>>

(***************************************************************************)
(* A superseded refresh                                                    *)
(***************************************************************************)
\* the fetch of the latest refresh is pending and its controller has been
\* aborted, recommendations having been rendered before it was issued
SupersededRefresh(r) ==
    /\ r = Len(refreshes)
    /\ refreshes[r].pc = "fetch"
    /\ controllers[refreshes[r].controller].aborted
    /\ refreshes[r].before.kind = "cards"

\* C13: when a personalized-recommendation fetch is superseded by a newer
\* refresh or by a search, the recommendations rendered before the fetch
\* was issued are still the content of the personalized view.
C13_SupersededKeepsView ==
    \A r \in DOMAIN refreshes :
        SupersededRefresh(r) =>
            view["user-recommendation-movies"] = refreshes[r].before

(***************************************************************************)
(* A failed refresh                                                        *)
(***************************************************************************)
\* a transport error or a non-OK response
Failure == [kind |-> "error", movies |-> <<>>]

\* C14: when the personalized-recommendation request fails for a reason
\* other than cancellation, the personalized view is replaced by the error
\* state, not by the empty-result state.
C14_FailureShowsError ==
    [][\A r \in DOMAIN refreshes :
          refreshSettles(r, Failure) =>
             /\ view'["user-recommendation-movies"].kind = "error"
             /\ view'["user-recommendation-movies"].kind # "empty"]_vars

(***************************************************************************)
(* Cancelled suggestion requests                                           *)
(***************************************************************************)
\* request i was cancelled by a newer suggestion request and is still pending
CancelledSuggest(i) ==
    /\ suggests[i].pc = "fetch"
    /\ controllers[suggests[i].signal].aborted
    /\ \E j \in DOMAIN suggests : j > i

\* C15: a suggestion request cancelled because a newer suggestion request
\* started has no effect on currentSuggestions or on the suggestion view: the
\* step in which its fetch rejects neither empties currentSuggestions nor
\* replaces the displayed list by "No movies found"
C15_CancelledHasNoEffect ==
    [][\A i \in DOMAIN suggests :
          (CancelledSuggest(i) /\ suggests'[i].pc # "fetch") =>
              /\ currentSuggestions' = currentSuggestions
              /\ suggestionsContent' = suggestionsContent]_vars

(***************************************************************************)
(* Aborted searches                                                        *)
(***************************************************************************)
\* search call i is suspended in its /search fetch and its signal is aborted
AbortedInSearch(i) ==
    searches[i].pc = "fetch" /\ controllers[searches[i].signal].aborted

\* search call i is suspended in its /recommendations fetch and that signal is aborted
AbortedInRecs(i) ==
    searches[i].pc = "recs" /\ controllers[searches[i].recsSignal].aborted

\* C16: a searchMovies call aborted while its /search request is pending
\* inserts nothing into the history, writes nothing to searchResultCache and
\* changes neither the search-results section nor the recommendations
\* section; a call whose chained /recommendations fetch is aborted changes
\* neither the history nor any cache
C16_AbortedSearchInert ==
    [][\A i \in DOMAIN searches :
          /\ (AbortedInSearch(i) /\ Moved(i)) =>
                /\ userProfile'.history = userProfile.history
                /\ storedProfile' = storedProfile
                /\ searchResultCache' = searchResultCache
                /\ hidden'["search-results"] = hidden["search-results"]
                /\ hidden'["recommendations"] = hidden["recommendations"]
                /\ \A c \in SearchViews : view'[c] = view[c]
          /\ (AbortedInRecs(i) /\ Moved(i)) =>
                /\ userProfile'.history = userProfile.history
                /\ storedProfile' = storedProfile
                /\ UNCHANGED cacheVars]_vars

\* the first search was aborted in its /search fetch by a second one and has
\* returned through catch and finally
C16_Witness ==
    /\ Len(searches) = 2
    /\ searches[1].pc = "abortedFetch"
    /\ searches[1].supersededAt = "fetch"
    /\ controllers[searches[1].signal].aborted

(***************************************************************************)
(* Late suggestion responses                                               *)
(***************************************************************************)
\* the latest getSearchSuggestions call came from the debounce timer and its
\* result is on display: the local list, a cache entry, or its own response
LatestDisplayed ==
    /\ callLog # <<>>
    /\ callLog[Len(callLog)].cause = "timer"
    /\ \/ callLog[Len(callLog)].path \in {"local", "hit"}
       \/ /\ callLog[Len(callLog)].path = "fetch"
          /\ suggests[Len(suggests)].pc = "list"

\* request i was issued for an earlier query and its response is still to come
EarlierPending(i) ==
    /\ suggests[i].query # callLog[Len(callLog)].query
    /\ suggests[i].pc = "fetch"
    /\ ~controllers[suggests[i].signal].aborted

\* C17: once a suggestion result for the latest debounced query is on
\* display, the response of a suggestion request issued for an earlier query
\* replaces neither currentSuggestions nor the displayed list
C17_EarlierResponseIgnored ==
    [][\A i \in DOMAIN suggests :
          (LatestDisplayed /\ EarlierPending(i) /\ suggests'[i].pc # "fetch") =>
              /\ currentSuggestions' = currentSuggestions
              /\ suggestionsContent' = suggestionsContent]_vars

(***************************************************************************)
(* The chained recommendation query and the request cache                  *)
(***************************************************************************)
\* search call j has received the recommendations of its top result, and the
\* request for them was sent less than CACHE_TTL_MS ago
RecsAnswered(j) ==
    /\ searches[j].pc \in {"enrichRecs", "done"}
    /\ searches[j].results # <<>>
    /\ \E n \in DOMAIN netLog :
          /\ netLog[n].endpoint = "/recommendations"
          /\ netLog[n].query = <<searches[j].results[1]>>
          /\ now < netLog[n].at + CACHE_TTL_MS

\* this step sends a /recommendations request for movie id
RecsRequested(id) ==
    /\ Len(netLog') = Len(netLog) + 1
    /\ netLog'[Len(netLog')].endpoint = "/recommendations"
    /\ netLog'[Len(netLog')].query = <<id>>

\* C18: the chained recommendation query goes through the request cache like
\* the search: once a search has received the recommendations of its top
\* result, a later search with the same top result id, languages and
\* safe-mode flag inside the TTL sends no /recommendations request (languages
\* and safe-mode flag stay fixed in SpecCache)
C18_RecsCached ==
    [][\A j \in DOMAIN searches :
          RecsAnswered(j) => ~RecsRequested(searches[j].results[1])]_vars

(***************************************************************************)
(* A search served from searchResultCache                                  *)
(***************************************************************************)
\* searchMovies was called and found a non-expired entry holding a
\* non-empty result list
FreshHit ==
    /\ SearchLookup
    /\ isFresh(searchResultCache, searches'[Len(searches')].cacheKey)
    /\ searchResultCache[searches'[Len(searches')].cacheKey].results.kind = "list"
    /\ searchResultCache[searches'[Len(searches')].cacheKey].results.movies # <<>>

\* C19: a searchMovies call that finds a non-expired entry in
\* searchResultCache sends no /search request and still applies the full
\* flow to the cached list: the top result is recorded in the history and
\* the chained recommendation query for it is sent (every card of the cached
\* lists of SpecCache has a poster, so displayMovies does not suspend and the
\* query goes out in the step of the call)
C19_HitRunsFullFlow ==
    [][FreshHit =>
          LET call == searches'[Len(searches')]
              movies == searchResultCache[call.cacheKey].results.movies
          IN /\ SearchRequests(netLog') = SearchRequests(netLog)
             /\ call.results = movies
             /\ Contains(userProfile'.history, movies[1])
             /\ Contains(storedProfile'.history, movies[1])
             /\ ~hidden'["search-results"]
             /\ RecsRequested(movies[1])
             /\ call.pc = "recs"]_vars

\* a search served from the cache has run to its end: one /search request
\* was sent for two searches
C19_Witness ==
    /\ Len(searches) = 2
    /\ searches[2].path = "hit"
    /\ searches[2].results # <<>>
    /\ searches[2].pc = "done"
    /\ Contains(userProfile.history, searches[2].results[1])
    /\ Len(SearchRequests(netLog)) = 1

(***************************************************************************)
(* Cache keys                                                              *)
(***************************************************************************)
zz == <<"z","z">>
zzBar == <<"z","z","|","e","n">>
zzComma == <<"z","z",",","h","i">>
zzSafe == <<"z","z","&","s","a","f","e","_","m","o","d","e","=","t","r","u","e">>
KeyTexts == {zz, zzBar, zzComma, zzSafe}
Ages == {0, 16, 30}

\* lookups under a changing profile: queries with separator characters, the
\* language selector and the profile form
NextKeys ==
    \/ UserEvents < MaxEvents /\ \E query \in KeyTexts : searchMovies(query)
    \/ UserEvents < MaxEvents /\ \E text \in KeyTexts : inputEvent(text)
    \/ UserEvents < MaxEvents /\ focusEvent
    \/ \E t \in timers : suggestTimerFires(t)
    \/ waitForTimer
    \/ UserEvents < MaxEvents /\ \E selected \in SubLists(LanguageOptions) :
            languageOptionClick(selected)
    \/ UserEvents < MaxEvents /\
            \E age \in Ages, safeMode \in BOOLEAN, languages \in SubLists(LanguageOptions) :
                saveProfile(age, safeMode, languages)

SpecKeys == Init /\ [][NextKeys]_vars

\* the getSearchSuggestions calls that went to suggestionCache
CacheLookups == {c \in DOMAIN callLog : callLog[c].path \in {"hit", "fetch"}}

\* two lookups were made for the same query text, language list and flag
SameInputs(a, b) ==
    /\ a.query = b.query
    /\ a.language = b.language
    /\ a.safe_mode = b.safe_mode

\* C20: in both caches the key is a deterministic and injective function of
\* (query text, language list, safe_mode): two lookups have the same key
\* exactly when all three are equal, also for query text that contains the
\* separator characters
C20_KeysInjective ==
    /\ \A a, b \in CacheLookups :
          callLog[a].cacheKey = callLog[b].cacheKey <=> SameInputs(callLog[a], callLog[b])
    /\ \A i, j \in DOMAIN searches :
          searches[i].cacheKey = searches[j].cacheKey <=> SameInputs(searches[i], searches[j])

\* a search for "zz" with safe mode on, then one for "zz&safe_mode=true" with
\* safe mode off and the same languages, under different keys
C20_Witness ==
    /\ Len(searches) = 2
    /\ searches[1].query = zz /\ searches[1].safe_mode
    /\ searches[2].query = zzSafe /\ ~searches[2].safe_mode
    /\ searches[1].language = searches[2].language
    /\ searches[1].cacheKey # searches[2].cacheKey

(***************************************************************************)
(* The local list for short queries                                        *)
(***************************************************************************)
\* the ids of all titles of commonMovies that contain the query, in list order
LocalMatches(query) ==
    LET matches == filterTitles(commonMovies, toLowerCase(query)) IN
    [i \in 1..Len(matches) |-> matches[i].id]

\* a trimmed input text of length 2 or 3 with a local match
HasLocal(query) ==
    /\ Len(query) \in MIN_SUGGEST_LEN..SHORT_QUERY_LEN
    /\ LocalMatches(query) # <<>>

\* the step shows the first local matches and touches nothing else
LocalOnly(query) ==
    /\ currentSuggestions' = slice(LocalMatches(query), IMMEDIATE_LIMIT)
    /\ suggestionsContent' = [kind |-> "items", items |-> currentSuggestions']
    /\ ~hidden'["search-suggestions"]
    /\ UNCHANGED <<suggestionCache, controllers, suggestionsController, suggests, netLog>>

\* C21: for a (trimmed) input text of length 2 or 3 with at least one
\* case-insensitive substring match in the fixed local title list, the
\* pipeline (debounce timer or focus) displays at most the first 4 local
\* matches in list order, leaves suggestionCache as it is, neither aborts nor
\* creates a suggestions controller and sends no request, whatever
\* suggestionCache holds
C21_LocalListOnly ==
    [][/\ \A t \in timers :
             (suggestTimerFires(t) /\ HasLocal(t.query)) => LocalOnly(t.query)
       /\ (focusEvent /\ HasLocal(trim(inputValue))) => LocalOnly(trim(inputValue))]_vars

\* "av" went through the debounce timer to the local list while
\* suggestionCache held an entry and a suggestions controller existed
C21_Witness ==
    /\ callLog # <<>>
    /\ callLog[Len(callLog)].path = "local"
    /\ callLog[Len(callLog)].query = <<"a","v">>
    /\ suggestionCache # <<>>
    /\ suggestionsController # 0
    /\ currentSuggestions = <<Avatar, TheAvengers>>

(***************************************************************************)
(* Clearing the search box                                                 *)
(***************************************************************************)
\* the input events so far
InputEvents == SelectSeq(eventLog, LAMBDA e : e.kind = "input")

\* the latest input event left the search box empty (after trimming)
ClearedLast ==
    /\ InputEvents # <<>>
    /\ trim(InputEvents[Len(InputEvents)].text) = <<>>

\* C22: an input event whose trimmed text is empty cancels the pending
\* debounce timer, hides the suggestion list and sends no request, and from
\* then on no suggestion is displayed until a later non-empty input event: a
\* suggestion response still in flight does not re-open the list
C22_ClearedStaysHidden ==
    ClearedLast =>
        /\ hidden["search-suggestions"]
        /\ \A t \in timers : t.kind # "suggest"

(***************************************************************************)
(* Keyboard navigation of the suggestion list                              *)
(***************************************************************************)
Directions == {"down", "up"}

NextNavigate ==
    \/ \E text \in InputTexts : inputEvent(text)
    \/ focusEvent
    \/ \E t \in timers : suggestTimerFires(t)
    \/ \E i \in DOMAIN suggests : suggestAborted(i)
    \/ \E i \in DOMAIN suggests, response \in SuggestResponses : suggestSettles(i, response)
    \/ waitForTimer
    \/ \E direction \in Directions : handleSuggestionNavigation(direction)
    \/ escapeKey

SpecNavigate == Init /\ [][NextNavigate]_vars

\* the selection index is -1 or an index of currentSuggestions (counted from 0)
IndexInRange ==
    selectedSuggestionIndex \in -1..(Len(currentSuggestions) - 1)

\* ArrowDown is pressed while the last suggestion is selected
DownAtLast ==
    handleSuggestionNavigation("down") /\ selectedSuggestionIndex = Len(currentSuggestions) - 1

\* ArrowUp is pressed while nothing is selected
UpAtNone ==
    handleSuggestionNavigation("up") /\ selectedSuggestionIndex = -1

\* C23: in every reachable state selectedSuggestionIndex lies in
\* [-1, length(currentSuggestions) - 1]; ArrowDown at the last index leaves
\* it there and ArrowUp at -1 leaves it at -1
C23_IndexClamped ==
    /\ []IndexInRange
    /\ [][/\ DownAtLast => selectedSuggestionIndex' = selectedSuggestionIndex
          /\ UpAtNone => selectedSuggestionIndex' = -1]_vars

(***************************************************************************)
(* Profile mutations and the debounced refresh                             *)
(***************************************************************************)
RefreshHorizon == 1200   \* the clock of SpecMutations stops here
Pause == 200             \* its step

\* time passes; a due timer fires before the clock moves past it
pass(d) ==
    /\ now + d <= RefreshHorizon
    /\ \A t \in timers : now + d <= t.due
    /\ now' = now + d
    /\ UNCHANGED <<profileVars, timerVars, channelVars, cacheVars, callVars,
                   pageVars, suggestVars, logVars>>

hi == <<"h","i">>
es == <<"e","s">>

NextMutations ==
    \/ \E liked \in BOOLEAN : rateMovie(1, liked)
    \/ toggleWatchlist(1)
    \/ \E mood \in Moods : moodButtonClick(mood)
    \/ moodPopupPick("sad")
    \/ \E selected \in {<<>>, <<hi>>} : languageOptionClick(selected)
    \/ \E age \in {16, 30}, safeMode \in BOOLEAN : saveProfile(age, safeMode, <<es>>)
    \/ pass(Pause)
    \/ \E t \in timers : refreshTimerFires(t)
    \/ \E r \in DOMAIN refreshes : refreshSettles(r, [kind |-> "list", movies |-> <<>>])

SpecMutations == Init /\ [][NextMutations]_vars

\* the step is a profile mutation that can influence the recommendations
Mutated == mutationLog' # mutationLog

\* the step sends the personalized-recommendation query
Queried == Len(refreshes') = Len(refreshes) + 1

\* mutations i..j, each less than 400 ms after the previous one
IsMutationBurst(i, j) ==
    /\ i <= j
    /\ \A k \in i..(j - 1) : mutationLog[k + 1].at - mutationLog[k].at < RECS_DEBOUNCE_MS

\* no mutation follows mutation j within the quiescence window, the window is
\* over and no refresh callback is due
MutationBurstClosed(j) ==
    IF j = Len(mutationLog)
    THEN /\ now >= mutationLog[j].at + RECS_DEBOUNCE_MS
         /\ \A t \in timers : t.kind = "recs" => t.due > now
    ELSE mutationLog[j + 1].at > mutationLog[j].at + RECS_DEBOUNCE_MS

\* the queries sent after mutation i and up to 400 ms after mutation j
QueriesOfBurst(i, j) ==
    {r \in DOMAIN refreshes :
        /\ refreshes[r].issuedAt > mutationLog[i].at
        /\ refreshes[r].issuedAt <= mutationLog[j].at + RECS_DEBOUNCE_MS}

\* C24: every profile mutation that can influence the personalized
\* recommendations first persists the profile and then schedules the
\* refresh; a burst of such mutations, each less than 400 ms after the
\* previous one, produces exactly one personalized-recommendation query, sent
\* 400 ms after the last of them, whose payload is the mood, languages, liked
\* ids, disliked ids and watchlist ids of the profile as it is when the
\* timer fires
C24_DebouncedRefresh ==
    /\ [](\A i \in DOMAIN mutationLog : \A j \in DOMAIN mutationLog :
            (IsMutationBurst(i, j) /\ MutationBurstClosed(j)) =>
                \E r \in DOMAIN refreshes :
                    /\ QueriesOfBurst(i, j) = {r}
                    /\ refreshes[r].issuedAt = mutationLog[j].at + RECS_DEBOUNCE_MS)
    /\ [][/\ Mutated =>
               /\ storedProfile' = userProfile'
               /\ recsDebounceTimeout' \in timers'
               /\ recsDebounceTimeout'.due = now + RECS_DEBOUNCE_MS
               /\ \A t \in timers' : t.kind = "recs" => t = recsDebounceTimeout'
          /\ Queried =>
               refreshes'[Len(refreshes')].payload =
                   [mood |-> userProfile.mood,
                    language |-> userProfile.language,
                    liked_movies |-> userProfile.liked_movies,
                    disliked_movies |-> userProfile.disliked_movies,
                    watchlist |-> userProfile.watchlist]]_vars

\* a burst of two different mutations 200 ms apart and a later single one,
\* each burst with its query
C24_Witness ==
    /\ Len(mutationLog) = 3
    /\ mutationLog[1].op # mutationLog[2].op
    /\ mutationLog[2].at = mutationLog[1].at + Pause
    /\ mutationLog[3].at > mutationLog[2].at + RECS_DEBOUNCE_MS
    /\ Len(refreshes) = 2
    /\ refreshes[1].payload # refreshes[2].payload

(***************************************************************************)
(* Persistence                                                             *)
(***************************************************************************)
\* ages the form can hold: none, too low, a minor, an adult, too high
FormAges == {0, 12, 16, 30, 101}

NextPersist ==
    \/ \E movieId \in RatedIds, liked \in BOOLEAN : rateMovie(movieId, liked)
    \/ \E movie \in RatedIds : toggleWatchlist(movie)
    \/ \E movieId \in RatedIds : showMovieDetail(movieId)
    \/ \E mood \in Moods : moodButtonClick(mood)
    \/ \E mood \in Moods : moodPopupPick(mood)
    \/ \E selected \in {<<>>, <<hi>>} : languageOptionClick(selected)
    \/ \E age \in FormAges, safeMode \in BOOLEAN : saveProfile(age, safeMode, <<es>>)

SpecPersist == Init /\ [][NextPersist]_vars

\* the fields of the data model
ProfileFields ==
    {"language", "mood", "safe_mode", "age", "watchlist", "history",
     "liked_movies", "disliked_movies"}

\* the step inserts a new id into the history
HistoryGrew == userProfile'.history # userProfile.history

\* C25: after each profile-mutating operation (rateMovie, toggleWatchlist,
\* addToHistory of a new id, mood pick, language option click, accepted
\* saveProfile) the profile stored under 'movieExplorerProfile' equals the
\* in-memory userProfile in every field of the data model
C25_StoredEqualsMemory ==
    [][(Mutated \/ HistoryGrew) =>
          \A f \in ProfileFields : storedProfile'[f] = userProfile'[f]]_vars

\* three different mutations and a history insert have been persisted
C25_Witness ==
    /\ Len(mutationLog) = 3
    /\ mutationLog[1].op # mutationLog[2].op
    /\ mutationLog[2].op # mutationLog[3].op
    /\ mutationLog[1].op # mutationLog[3].op
    /\ userProfile.history # <<>>
    /\ userProfile # DefaultProfile
    /\ storedProfile = userProfile

(***************************************************************************)
(* Rejected profile forms                                                  *)
(***************************************************************************)
\* the age is missing, no number, below 13 or above 100, or it is below 18
\* and Safe Mode is unchecked
InvalidForm(age, safeMode) ==
    \/ age \notin 13..100
    \/ age < 18 /\ ~safeMode

\* C26: saveProfile with an age that is missing, no number, below 13 or
\* above 100, or with an age below 18 and Safe Mode unchecked, is rejected:
\* userProfile and the persisted profile are as before the call and no
\* recommendation refresh is scheduled
C26_RejectedFormChangesNothing ==
    [][\A age \in FormAges : \A safeMode \in BOOLEAN :
          (saveProfile(age, safeMode, <<es>>) /\ InvalidForm(age, safeMode)) =>
              UNCHANGED <<userProfile, storedProfile, timers, recsDebounceTimeout>>]_vars

\* a form of a minor without Safe Mode was rejected after an accepted one
C26_Witness ==
    /\ lastCall.op = "saveProfile"
    /\ lastCall.age = 16 /\ ~lastCall.safeMode
    /\ userProfile.age = 30 /\ ~userProfile.safe_mode
    /\ userProfile.language = <<es>>
    /\ storedProfile = userProfile

(***************************************************************************)
(* The language list                                                       *)
(***************************************************************************)
\* C27: userProfile.language is a non-empty list in every reachable state,
\* after any sequence of language option clicks and saveProfile calls,
\* including the click that deselects the last selected language option
C27_LanguageNonEmpty ==
    userProfile.language # <<>>

(***************************************************************************)
(* Safe mode                                                               *)
(***************************************************************************)
\* a backend answer that holds a summary flagged adult
AdultResponse == [kind |-> "list", movies |-> <<27205, 680>>]

\* searches, suggestions and the profile form with such answers; "zz" matches
\* no entry of the local list (whose entries carry no adult flag)
NextAdult ==
    \/ UserEvents < MaxEvents /\ searchMovies(matrix)
    \/ \E i \in DOMAIN searches : searchAborted(i)
    \/ \E i \in DOMAIN searches : searchSettles(i, AdultResponse)
    \/ \E i \in DOMAIN searches : recsAborted(i)
    \/ \E i \in DOMAIN searches : recsSettles(i, AdultResponse)
    \/ animationFrame
    \/ UserEvents < MaxEvents /\ inputEvent(zz)
    \/ \E t \in timers : suggestTimerFires(t)
    \/ \E i \in DOMAIN suggests : suggestAborted(i)
    \/ \E i \in DOMAIN suggests : suggestSettles(i, AdultResponse)
    \/ waitForTimer
    \/ UserEvents < MaxEvents /\ \E safeMode \in BOOLEAN : saveProfile(30, safeMode, <<es>>)
    \/ \E t \in timers : refreshTimerFires(t)
    \/ \E r \in DOMAIN refreshes : refreshSettles(r, AdultResponse)

SpecAdult == Init /\ [][NextAdult]_vars

\* the movies on display: the cards of the three containers and the open
\* suggestion list
Displayed ==
    UNION {Range(view[c].movies) : c \in Containers}
      \cup (IF hidden["search-suggestions"] THEN {} ELSE Range(suggestionsContent.items))

\* C28: while userProfile.safe_mode is true, no movie with adult = true is
\* displayed in any result set (search results, chained recommendations,
\* personalized recommendations, suggestions), whatever the backend returns
\* and whatever the caches hold from a time when safe mode was off
C28_SafeModeHidesAdult ==
    userProfile.safe_mode => Displayed \cap AdultIds = {}

(***************************************************************************)
(* Failures stay in their region                                           *)
(***************************************************************************)
\* the search results and their section stay as they are, painted or about
\* to be painted
SearchResultsKept ==
    /\ view'["search-movies"] = view["search-movies"]
    /\ hidden'["search-results"] = hidden["search-results"]
    /\ frames' = frames

\* the search results and the chained recommendations stay as they are
SearchRegionsKept ==
    /\ SearchResultsKept
    /\ view'["recommendation-movies"] = view["recommendation-movies"]
    /\ hidden'["recommendations"] = hidden["recommendations"]

\* C29: a failure of the chained /recommendations request of a search
\* (transport error or abort) leaves the search results of that search
\* displayed and unchanged, and a failure of the personalized-recommendation
\* request leaves the search-results and recommendations sections unchanged
C29_FailureStaysInRegion ==
    [][/\ \A i \in DOMAIN searches :
             (recsSettles(i, Failure) \/ recsAborted(i)) => SearchResultsKept
       /\ \A r \in DOMAIN refreshes :
             refreshSettles(r, Failure) => SearchRegionsKept]_vars

\* the chained request of the first search has failed with its results on
\* display, and a personalized request has failed as well
C29_Witness ==
    /\ searches # <<>>
    /\ searches[1].pc = "failed"
    /\ searches[1].results # <<>>
    /\ view["search-movies"].kind = "cards"
    /\ view["search-movies"].by = 1
    /\ ~hidden["search-results"]
    /\ refreshes # <<>>
    /\ refreshes[1].pc = "done"
    /\ view["user-recommendation-movies"].kind = "empty"

(***************************************************************************)
(* A failed search request                                                 *)
(***************************************************************************)
\* C30: a transport failure of a /search request made by searchMovies is
\* surfaced to the user as a transient notice (a toast), and leaves
\* searchResultCache, suggestionCache and the persisted profile unchanged
C30_SearchFailureNotice ==
    [][\A i \in DOMAIN searches :
          searchSettles(i, Failure) =>
              /\ ~hidden'["toast"]
              /\ UNCHANGED <<searchResultCache, suggestionCache, storedProfile>>]_vars

(***************************************************************************)
(* Blank searches                                                          *)
(***************************************************************************)
BlankQueries == {<<>>, <<" ">>, <<" ", " ">>}

\* searches and suggestions, with blank searches in between
NextBlank ==
    \/ \E query \in BlankQueries : searchMovies(query)
    \/ UserEvents < MaxEvents /\ searchMovies(matrix)
    \/ \E i \in DOMAIN searches : searchAborted(i)
    \/ \E i \in DOMAIN searches, response \in CacheResponses : searchSettles(i, response)
    \/ \E i \in DOMAIN searches : recsAborted(i)
    \/ \E i \in DOMAIN searches, response \in CacheResponses : recsSettles(i, response)
    \/ animationFrame
    \/ UserEvents < MaxEvents /\ inputEvent(zz)
    \/ \E t \in timers : suggestTimerFires(t)
    \/ \E i \in DOMAIN suggests : suggestAborted(i)
    \/ \E i \in DOMAIN suggests, response \in CacheResponses : suggestSettles(i, response)
    \/ waitForTimer

SpecBlank == Init /\ [][NextBlank]_vars

\* the text is empty or holds blanks only
Blank(query) == \A k \in DOMAIN query : query[k] = " "

\* C31: searchMovies with an empty or whitespace-only query is a no-op: it
\* aborts no controller, creates none, sends no request and changes no
\* cache, no history and no view, the loading spinner and the suggestion
\* list included
C31_BlankSearchNoOp ==
    [][\A query \in BlankQueries \cup {matrix} :
          (searchMovies(query) /\ Blank(query)) =>
              UNCHANGED <<channelVars, netLog, cacheVars, userProfile, storedProfile,
                          pageVars, callVars, suggestVars, timerVars>>]_vars

\* a blank search was made while another search was running, the suggestion
\* list was open and searchResultCache held an entry
C31_Witness ==
    /\ lastCall.op = "searchMovies"
    /\ Blank(lastCall.query)
    /\ ~hidden["loading-spinner"]
    /\ ~hidden["search-suggestions"]
    /\ searchResultCache # <<>>
    /\ controllers # <<>>

(***************************************************************************)
(* Selecting a suggestion                                                  *)
(***************************************************************************)
MaxIndex == 2            \* the indexes a click can carry: 0..MaxIndex

\* typing, navigating and selecting in the suggestion list
NextSelect ==
    \/ UserEvents < MaxEvents /\ \E text \in InputTexts : inputEvent(text)
    \/ \E t \in timers : suggestTimerFires(t)
    \/ \E i \in DOMAIN suggests : suggestAborted(i)
    \/ \E i \in DOMAIN suggests, response \in SuggestResponses : suggestSettles(i, response)
    \/ waitForTimer
    \/ \E direction \in Directions : handleSuggestionNavigation(direction)
    \/ UserEvents < MaxEvents /\ \E index \in 0..MaxIndex : selectSuggestion(index)
    \/ UserEvents < MaxEvents /\ handleSuggestionEnter
    \/ \E i \in DOMAIN searches : searchAborted(i)
    \/ \E i \in DOMAIN searches, response \in CacheResponses : searchSettles(i, response)

SpecSelect == Init /\ [][NextSelect]_vars

\* index is an index of currentSuggestions (counted from 0)
InList(index) == index >= 0 /\ index < Len(currentSuggestions)

\* a searchMovies call with this query starts in the step
SearchStarts(query) ==
    /\ Len(searches') = Len(searches) + 1
    /\ searches'[Len(searches')].query = query

\* a search starts with the title of suggestion index, and the list is hidden
SearchOfSuggestion(index) ==
    /\ \E movie \in Range(commonMovies) :
          /\ movie.id = currentSuggestions[index + 1]
          /\ SearchStarts(movie.title)
    /\ hidden'["search-suggestions"]

\* the step changes no state of the page
NothingHappens ==
    UNCHANGED <<profileVars, now, timerVars, channelVars, cacheVars, callVars,
                pageVars, suggestVars, eventLog, callLog, netLog>>

EnterOnSuggestion == handleSuggestionEnter /\ InList(selectedSuggestionIndex)

EnterOnText ==
    handleSuggestionEnter /\ selectedSuggestionIndex = -1 /\ trim(inputValue) # <<>>

EnterOnNothing ==
    handleSuggestionEnter /\ selectedSuggestionIndex = -1 /\ trim(inputValue) = <<>>

ClickOnSuggestion(index) == selectSuggestion(index) /\ InList(index)

\* C32: selecting suggestion i of currentSuggestions, by click or by Enter
\* with selectedSuggestionIndex = i, starts searchMovies with the title of
\* currentSuggestions[i] and hides the suggestion list; Enter with
\* selectedSuggestionIndex = -1 starts searchMovies with the trimmed input
\* text when it is non-empty and does nothing otherwise
C32_SelectionStartsSearch ==
    [][/\ \A index \in 0..MaxIndex : ClickOnSuggestion(index) => SearchOfSuggestion(index)
       /\ EnterOnSuggestion => SearchOfSuggestion(selectedSuggestionIndex)
       /\ EnterOnText => SearchStarts(trim(inputValue))
       /\ EnterOnNothing => NothingHappens]_vars

\* Enter was pressed on the second suggestion of a list
C32_Witness ==
    /\ lastCall.op = "handleSuggestionEnter"
    /\ searches # <<>>
    /\ Len(currentSuggestions) >= 2
    /\ searches[Len(searches)].query = title(currentSuggestions[2])
    /\ inputValue = title(currentSuggestions[2])

(***************************************************************************)
(* Loading the stored profile                                              *)
(***************************************************************************)
\* localStorage.getItem('movieExplorerProfile') when nothing is stored
NothingSaved == [null |-> TRUE]

\* stored profiles holding all the fields the page reads
FullBlobs ==
    [ age : {16, 30}, safe_mode : {FALSE}, mood : {"sad"},
      watchlist : {<<>>, <<1, 2>>}, region : {"IN"} ]

SavedFields == {"age", "safe_mode", "mood", "watchlist", "region"}

\* the parsed blobs: objects holding some of the fields
SavedBlobs ==
    {[f \in fields |-> full[f]] : full \in FullBlobs, fields \in SUBSET SavedFields}

SavedItems == SavedBlobs \cup {NothingSaved}

\* { ...b, ...a }: the fields of a win
spreadFirst(a, b) ==
    [f \in DOMAIN a \cup DOMAIN b |-> IF f \in DOMAIN a THEN a[f] ELSE b[f]]

\* { ...a, ...b }
spread(a, b) ==
    [f \in DOMAIN a \cup DOMAIN b |-> IF f \in DOMAIN b THEN b[f] ELSE a[f]]

\* loadUserProfile, called once by initializeApp
loadUserProfile ==
    /\ lastCall.op = "none"
    /\ lastCall' = [op |-> "loadUserProfile"]
    /\ userProfile' = IF storedProfile # NothingSaved
                      THEN spread(userProfile, storedProfile)
                      ELSE userProfile
    /\ watchlist' = userProfile'.watchlist
    /\ UNCHANGED <<storedProfile, now, timerVars, channelVars, cacheVars, callVars,
                   pageVars, suggestVars, eventLog, callLog, netLog, mutations,
                   mutationLog, idsSeen>>

\* the page before initializeApp, with or without a stored profile
InitLoad ==
    /\ userProfile = DefaultProfile
    /\ watchlist = <<>>
    /\ storedProfile \in SavedItems
    /\ now = 0
    /\ timers = {}
    /\ searchTimeout = NoTimer
    /\ recsDebounceTimeout = NoTimer
    /\ controllers = <<>>
    /\ suggestionsController = 0
    /\ searchController = 0
    /\ recsController = 0
    /\ searchResultCache = <<>>
    /\ suggestionCache = <<>>
    /\ tmdbPosterCache = {}
    /\ searches = <<>>
    /\ refreshes = <<>>
    /\ suggests = <<>>
    /\ frames = <<>>
    /\ view = [c \in Containers |-> [kind |-> "initial", movies |-> <<>>, by |-> 0]]
    /\ hidden = [e \in Elements |-> TRUE]
    /\ inputValue = <<>>
    /\ currentSuggestions = <<>>
    /\ selectedSuggestionIndex = -1
    /\ suggestionsContent = [kind |-> "initial", items |-> <<>>]
    /\ eventLog = <<>>
    /\ callLog = <<>>
    /\ netLog = <<>>
    /\ mutations = 0
    /\ mutationLog = <<>>
    /\ idsSeen = 0
    /\ lastCall = [op |-> "none"]

\* initializeApp, then the watchlist buttons
NextLoad ==
    \/ loadUserProfile
    \/ lastCall.op # "none" /\ \E movie \in WatchlistIds : toggleWatchlist(movie)

SpecLoad == InitLoad /\ [][NextLoad]_vars

\* the fields the stored blob holds
StoredFields == IF storedProfile = NothingSaved THEN {} ELSE DOMAIN storedProfile

\* C33: loadUserProfile merges the stored profile over the defaults: every
\* field of the stored blob takes the stored value, every absent field keeps
\* its default; when nothing is stored the profile equals the defaults
C33_StoredOverDefaults ==
    lastCall.op = "loadUserProfile" =>
        /\ DOMAIN userProfile = DOMAIN DefaultProfile \cup StoredFields
        /\ \A f \in StoredFields : userProfile[f] = storedProfile[f]
        /\ \A f \in DOMAIN DefaultProfile \ StoredFields : userProfile[f] = DefaultProfile[f]
        /\ storedProfile = NothingSaved => userProfile = DefaultProfile

\* a blob holding the age and the watchlist, but no safe_mode, was loaded
C33_Witness ==
    /\ lastCall.op = "loadUserProfile"
    /\ storedProfile # NothingSaved
    /\ DOMAIN storedProfile = {"age", "watchlist"}
    /\ userProfile.age = 16
    /\ userProfile.watchlist = <<1, 2>>
    /\ userProfile.safe_mode

(***************************************************************************)
(* The two copies of the watchlist                                         *)
(***************************************************************************)
\* C34: starting from an empty watchlist, after any sequence of
\* toggleWatchlist calls the watchlist holds no two movies with the same id,
\* and userProfile.watchlist holds the same movies in the same order as the
\* module-level watchlist
C34_WatchlistInSync ==
    /\ NoDuplicates(watchlist)
    /\ userProfile.watchlist = watchlist

\* two movies were added and the first one was removed again
C34_Witness ==
    /\ lastCall.op = "toggleWatchlist"
    /\ lastCall.before = <<1, 2>>
    /\ watchlist = <<2>>
    /\ userProfile.watchlist = <<2>>

(***************************************************************************)
(* The suggestion list after a search                                      *)
(***************************************************************************)
\* search call i started after every input and focus event so far
NoEventSince(i) ==
    \A k \in DOMAIN eventLog : eventLog[k].at < searches[i].startedAt

\* C35: after a search has started, the suggestion list stays hidden until
\* the next input or focus event: a suggestion timer that was pending, or a
\* suggestion request in flight, when the search started does not re-open it
C35_HiddenAfterSearch ==
    \A i \in DOMAIN searches : NoEventSince(i) => hidden["search-suggestions"]

(***************************************************************************)
(* The chained recommendations and the refresh                             *)
(***************************************************************************)
\* search call i is the only one so far and has rendered a non-empty result
\* list: no other search can have aborted its chained request
RenderedLatest(i) ==
    /\ Len(searches) = 1
    /\ searches[i].results # <<>>

\* C36: after a search with a non-empty result list has rendered its results,
\* and no later search is started, its chained recommendations are fetched
\* and applied: a personalized-recommendation refresh firing in the meantime
\* does not abort the chained request, so the call never ends in the catch
\* block with the AbortError of that request
C36_ChainedRequestSurvives ==
    \A i \in DOMAIN searches : RenderedLatest(i) => searches[i].pc # "abortedRecs"

(***************************************************************************)
(* The promises of loadPersonalizedRecommendations                         *)
(***************************************************************************)
\* profile mutations, the clock and the refresh they schedule
NextPromise ==
    \/ \E safeMode \in BOOLEAN : saveProfile(30, safeMode, <<es>>)
    \/ moodButtonClick("sad")
    \/ pass(Pause)
    \/ waitForTimer
    \/ \E t \in timers : refreshTimerFires(t)
    \/ \E r \in DOMAIN refreshes, response \in ChannelResponses : refreshSettles(r, response)
    \/ \E r \in DOMAIN refreshes : refreshEnrichSettles(r, TRUE)

SpecPromise == Init /\ [][NextPromise]_vars

\* the event loop runs every due timer, and every request sent settles
SpecPromiseFair ==
    /\ SpecPromise
    /\ WF_vars(waitForTimer)
    /\ WF_vars(\E t \in timers : refreshTimerFires(t))
    /\ WF_vars(\E r \in DOMAIN refreshes, response \in ChannelResponses :
                  refreshSettles(r, response))
    /\ WF_vars(\E r \in DOMAIN refreshes : refreshEnrichSettles(r, TRUE))

\* the calls of loadPersonalizedRecommendations whose timer was due when
\* refresh r started
DueCalls(r) ==
    {k \in DOMAIN mutationLog :
        mutationLog[k].at + RECS_DEBOUNCE_MS <= refreshes[r].issuedAt}

\* refresh r is the timer callback of the k-th loadPersonalizedRecommendations
\* call: the latest call whose timer was due
CallbackOf(r, k) == k \in DueCalls(r) /\ \A j \in DueCalls(r) : j <= k

\* the promise of the k-th call is resolved: its callback reached resolve()
Resolved(k) ==
    \E r \in DOMAIN refreshes : CallbackOf(r, k) /\ refreshes[r].pc = "done"

Called(k) == Len(mutationLog) >= k

\* C37: the promise returned by every loadPersonalizedRecommendations call
\* is eventually resolved, also when a later call clears its timer; so every
\* accepted saveProfile call, which awaits it, eventually completes
C37_PromisesResolve ==
    \A k \in 1..MaxMutations : Called(k) ~> Resolved(k)

(***************************************************************************)
(* The loading spinner                                                     *)
(***************************************************************************)
\* search call i is suspended at an await and its controller is not aborted
Running(i) ==
    /\ searches[i].pc \in AwaitPoints
    /\ ~controllers[searches[i].signal].aborted

\* C38: the loading spinner is visible in every state in which a non-aborted
\* searchMovies call is still running: the finally block of an aborted
\* earlier search does not hide the spinner of the search that aborted it
C38_SpinnerWhileRunning ==
    (\E i \in DOMAIN searches : Running(i)) => ~hidden["loading-spinner"]

(***************************************************************************)
(* What searchResultCache holds                                            *)
(***************************************************************************)
\* C39: every value stored in searchResultCache is a list of movie
\* summaries: a /search response whose JSON body is not a list is not
\* cached, so no later search for the same key is answered from it
C39_OnlyListsCached ==
    /\ \A key \in DOMAIN searchResultCache :
          searchResultCache[key].results.kind = "list"
    /\ \A i \in DOMAIN searches :
          searches[i].path = "hit" => searches[i].body \in {"none", "list"}

(***************************************************************************)
(* The age and Safe Mode of the profile                                    *)
(***************************************************************************)
\* ages around the limits of the form: negative, none, 12 and 13, 17 and
\* 18, 100 and 101
BoundaryAges == {-1, 0, 12, 13, 17, 18, 100, 101}

\* the profile form is saved again and again
NextForm ==
    \/ \E age \in BoundaryAges, safeMode \in BOOLEAN, languages \in {<<>>, <<es>>} :
          saveProfile(age, safeMode, languages)
    \/ \E mood \in Moods : moodButtonClick(mood)

SpecForm == Init /\ [][NextForm]_vars

\* C40: starting from the default profile (age 25, safe_mode true), after
\* any sequence of saveProfile calls the profile satisfies 13 <= age <= 100
\* and (age < 18 implies safe_mode = true)
C40_AgeAndSafeMode ==
    /\ 13 <= userProfile.age
    /\ userProfile.age <= 100
    /\ userProfile.age < 18 => userProfile.safe_mode

\* a minor's profile was saved after another accepted change
C40_Witness ==
    /\ lastCall.op = "saveProfile"
    /\ lastCall.age = 17
    /\ userProfile.age = 17
    /\ userProfile.safe_mode
    /\ mutations >= 2
====
